---- MODULE Spec2Model ----
(***************************************************************************)
(* A model of agentbuilder's plan-execute loop: the conversation history   *)
(* (Client/base.py), the planner's decision procedure (Planner/base.py),   *)
(* the action executors (Action/base.py, Tools/base.py) and the loop that  *)
(* drives them (Loop/base.py).                                             *)
(*                                                                         *)
(* Python values are represented as follows.                               *)
(*   - None, where a string is expected, is the value None below; no text  *)
(*     of the model equals it.                                             *)
(*   - Optional[List] is a record [is_none, items]: NoneList is None and   *)
(*     ListOf(<<>>) is the empty list, which Python tells apart from None  *)
(*     but treats alike in a truth test.                                   *)
(*   - a dict is a record (a function of its keys), so a missing key is a  *)
(*     name outside DOMAIN.                                                *)
(*   - an exception leaving a call is a record [type |-> "raise", exc].    *)
(***************************************************************************)
EXTENDS Integers, Sequences, FiniteSets

VARIABLES
    conversation_history, \* BaseConversationWrapper.conversation_history
    max_iterations,       \* AgenticLoop.max_iterations
    pc,                   \* where the caller / the loop of run() stands
    iterations,           \* run()'s local counter (the argument given to step)
    action,               \* the value planner.step last produced
    result,               \* what the last run() returned, or the exception that left it
    plan_log,             \* the planner's outputs of the current run, in order
    llm_calls,            \* invocations of client.chat.completions.create so far
    llm_messages,         \* the messages argument of the latest invocation
    llm_response,         \* what the model boundary last did in the current run
    next_id,              \* the model boundary's counter behind its tool-call ids
    runs,                 \* run() calls made so far
    batch,                \* the latest tool batch: its requests, where it began, how it ended
    sessions,             \* _SessionStore._sessions: session id -> loop instance
    lock,                 \* _SessionStore._lock: the thread holding it, or None
    agents,               \* the loop instances the factory has built, by instance number
    threads,              \* the server's request threads: the request each is handling
    issued,               \* uuid4() calls made so far by the store
    returned,             \* the ids POST /sessions has returned -> the instance built for each
    request_count,        \* requests the server has accepted so far
    remote_state,         \* a RemoteAgentTool: not built yet, built, or its __init__ raised
    remote_session_id,    \* RemoteAgentTool._session_id
    remote_log,           \* the HTTP requests the tool has sent, with the status of each
    remote_result,        \* the tool's method called last and how it ended
    remote_calls,         \* calls of _delegate and close made so far
    remote_server,        \* the session ids registered at the server the tool talks to
    sub_history,          \* the conversation history of the loop an AgentTool wraps
    sub_pc,               \* where the AgentTool's _delegate and the wrapped loop's run stand
    sub_i,                \* the statement of _delegate being executed
    sub_iterations,       \* the wrapped loop's run(): its local counter
    sub_action,           \* the wrapped loop's run(): what its planner last produced
    sub_result,           \* what the wrapped loop's run() last returned, or what left it
    call_i,               \* the parent's ExecuteToolsAction.run: the request being served
    delegations,          \* calls of AgentTool._delegate made so far
    saved_file,           \* the file save_conversation wrote: its JSON value, or None
    repl_env,             \* _repl_server.main: env, the globals every exec runs in
    repl_alive,           \* the REPL server process is inside main's for loop
    repl_stdin,           \* lines sent to the server that it has not read yet
    repl_stdout,          \* lines the server wrote that no recv has taken yet
    repl_served,          \* the lines the server has read, with what it wrote for each
    exec_call,            \* the DockerSandbox.execute call in progress, or NoExec
    exec_log,             \* the execute calls that returned: caller, code, result
    loops,                \* the loops factory() has returned, in order
    init_kwargs           \* the keyword arguments of the ConversationWrapper(...) call made

loopVars == <<conversation_history, max_iterations, pc, iterations, action, result,
              plan_log, llm_calls, llm_messages, llm_response, next_id, runs, batch>>
storeVars == <<sessions, lock, agents, threads, issued, returned, request_count>>
remoteVars == <<remote_state, remote_session_id, remote_log, remote_result,
                remote_calls, remote_server>>
agentVars == <<sub_history, sub_pc, sub_i, sub_iterations, sub_action, sub_result,
               call_i, delegations>>
fileVars == <<saved_file>>
replVars == <<repl_env, repl_alive, repl_stdin, repl_stdout, repl_served, exec_call,
              exec_log, loops>>
buildVars == <<init_kwargs>>
vars == <<loopVars, storeVars, remoteVars, agentVars, fileVars, replVars, buildVars>>
\* What a step of one component leaves alone.
outsideLoop == <<storeVars, remoteVars, agentVars, fileVars, replVars, buildVars>>
outsideStore == <<loopVars, remoteVars, agentVars, fileVars, replVars, buildVars>>
outsideRemote == <<loopVars, storeVars, agentVars, fileVars, replVars, buildVars>>
outsideAgent == <<storeVars, remoteVars, fileVars, replVars, buildVars>>
outsideRepl == <<storeVars, remoteVars, agentVars, fileVars, buildVars>>

(***************************************************************************)
(* Bounds of the model.                                                    *)
(***************************************************************************)
MaxIter == 4
MaxRuns == 2
MaxLLMCalls == 2
MaxCalls == 2
MaxHist == 3
MaxRequests == 4
MaxSessions == 2
MaxRemoteCalls == 3
MaxExec == 3
SessionMaxIter == 2

(***************************************************************************)
(* Values.                                                                 *)
(***************************************************************************)
None == "None"
Sentinel == "Max iterations reached"
NoneList == [is_none |-> TRUE, items |-> <<>>]
ListOf(l) == [is_none |-> FALSE, items |-> l]
\* Python's truth test of an Optional[List] and of an Optional[str].
TruthyList(l) == ~l.is_none /\ l.items # <<>>
TruthyStr(s) == s # None /\ s # ""

Last(s) == s[Len(s)]

(***************************************************************************)
(* Message actions: the entries of the conversation history.               *)
(***************************************************************************)
SystemMessageAction(content) == [type |-> "system", content |-> content]
UserMessageAction(content) == [type |-> "user", content |-> content]
AssistantMessageAction(content, tool_calls) ==
    [type |-> "assistant", content |-> content, tool_calls |-> tool_calls]
ToolMessageAction(tool_call_id, name, content) ==
    [type |-> "tool", tool_call_id |-> tool_call_id, name |-> name, content |-> content]

\* A tool call as the model boundary's model_dump() gives it.
ToolCall(id, name, arguments) ==
    [id |-> id, function |-> [name |-> name, arguments |-> arguments]]

(***************************************************************************)
(* Control-flow actions: what the planner returns.                         *)
(***************************************************************************)
ExecuteToolsAction(tool_calls) == [type |-> "ExecuteToolsAction", tool_calls |-> tool_calls]
MakeLLMRequestAction == [type |-> "MakeLLMRequestAction"]
CompleteAction(content, its) ==
    [type |-> "CompleteAction", content |-> content, iterations |-> its]
EmptyAction(its) == [type |-> "EmptyAction", iterations |-> its]
Raise(exc) == [type |-> "raise", exc |-> exc]
NoAction == [type |-> "none"]

IsTerminal(a) == a.type \in {"CompleteAction", "EmptyAction"}

(***************************************************************************)
(* AgenticPlanner.step                                                     *)
(***************************************************************************)
\* A planner that lets text win over pending tool calls.
step_TextFirst(history, its) ==
    IF history = <<>> THEN EmptyAction(its)
    ELSE LET last_action == Last(history) IN
         IF last_action.type = "assistant" /\ TruthyStr(last_action.content)
         THEN CompleteAction(last_action.content, its)
         ELSE IF last_action.type = "assistant" /\ TruthyList(last_action.tool_calls)
         THEN ExecuteToolsAction(last_action.tool_calls.items)
         ELSE IF last_action.type \in {"tool", "user"} THEN MakeLLMRequestAction
         ELSE Raise("NotImplementedError")

\* A planner that decides on the first entry instead of the last, and reports
\* the length of the history instead of the count it was given.
step_FirstEntry(history, its) ==
    IF history = <<>> THEN EmptyAction(its)
    ELSE LET last_action == history[1] IN
         IF last_action.type = "assistant" /\ TruthyList(last_action.tool_calls)
         THEN ExecuteToolsAction(last_action.tool_calls.items)
         ELSE IF last_action.type \in {"tool", "user"} THEN MakeLLMRequestAction
         ELSE IF /\ last_action.type = "assistant"
                 /\ TruthyStr(last_action.content)
                 /\ ~TruthyList(last_action.tool_calls)
         THEN CompleteAction(last_action.content, Len(history))
         ELSE Raise("NotImplementedError")

\* A planner that treats every entry it has no rule for as a completion.
step_FallThroughCompletes(history, its) ==
    IF history = <<>> THEN EmptyAction(its)
    ELSE LET last_action == Last(history) IN
         IF last_action.type = "assistant" /\ TruthyList(last_action.tool_calls)
         THEN ExecuteToolsAction(last_action.tool_calls.items)
         ELSE IF last_action.type \in {"tool", "user"} THEN MakeLLMRequestAction
         ELSE CompleteAction(last_action.content, its)

step(history, its) ==
    IF history = <<>> THEN EmptyAction(its)
    ELSE LET last_action == Last(history) IN
         IF last_action.type = "assistant" /\ TruthyList(last_action.tool_calls)
         THEN ExecuteToolsAction(last_action.tool_calls.items)
         ELSE IF last_action.type \in {"tool", "user"} THEN MakeLLMRequestAction
         ELSE IF /\ last_action.type = "assistant"
                 /\ TruthyStr(last_action.content)
                 /\ ~TruthyList(last_action.tool_calls)
         THEN CompleteAction(last_action.content, its)
         ELSE Raise("NotImplementedError")

(***************************************************************************)
(* BaseConversationWrapper: the history's mutators and its serialisation.  *)
(***************************************************************************)
add_system_message(history, content) == Append(history, SystemMessageAction(content))
add_user_message(history, content) == Append(history, UserMessageAction(content))
add_assistant_message(history, content, tool_calls) ==
    Append(history, AssistantMessageAction(content, tool_calls))
add_tool_message(history, tool_call_id, name, content) ==
    Append(history, ToolMessageAction(tool_call_id, name, content))

\* <Message>Action.to_message, one branch per entry class.
to_message(entry) ==
    CASE entry.type = "system" -> [role |-> "system", content |-> entry.content]
      [] entry.type = "user" -> [role |-> "user", content |-> entry.content]
      [] entry.type = "assistant" ->
            IF TruthyList(entry.tool_calls)
            THEN [role |-> "assistant", content |-> entry.content,
                  tool_calls |-> entry.tool_calls.items]
            ELSE [role |-> "assistant", content |-> entry.content]
      [] entry.type = "tool" ->
            [role |-> "tool", tool_call_id |-> entry.tool_call_id,
             name |-> entry.name, content |-> entry.content]

to_messages(history) == [i \in 1..Len(history) |-> to_message(history[i])]

(***************************************************************************)
(* Tools: the registry, Tool.execute and Response.to_dict.                 *)
(*                                                                         *)
(* The arguments of a tool call are a JSON text written by the model. Only *)
(* what json.loads and the ** call make of it matters here:                *)
(*   "object"    a JSON object: json.loads gives a dict                    *)
(*   "nonobject" valid JSON that is no object (a list, a number, null):    *)
(*               json.loads succeeds, unpacking it as keyword arguments    *)
(*               in the call of execute raises TypeError                   *)
(*   "invalid"   not JSON: json.loads raises JSONDecodeError               *)
(* A tool's function, given a dict, returns a value or raises an exception *)
(* whose message is a string, possibly the empty string. The value is one  *)
(* json.dumps can encode ("8") or one it cannot (Unserializable: a set, a  *)
(* bytes object, ...), for which json.dumps raises TypeError.              *)
(***************************************************************************)
tool_map == {"add"}
ToolNames == {"add", "nope"}
ArgKinds == {"object", "nonobject", "invalid"}
Unserializable == "<unserializable>"
ToolOutcomes == {[kind |-> "return", value |-> "8"],
                 [kind |-> "return", value |-> Unserializable],
                 [kind |-> "raise", value |-> "boom"],
                 [kind |-> "raise", value |-> ""]}
\* The outcome of a request whose tool function is never called.
NotInvoked == [kind |-> "none", value |-> None]

Response(success, data, error) == [success |-> success, data |-> data, error |-> error]

\* A to_dict that writes the error key whenever the call failed.
to_dict_ErrorOnFailure(response) ==
    IF ~response.success
    THEN [success |-> response.success, data |-> response.data, error |-> response.error]
    ELSE [success |-> response.success, data |-> response.data]

\* A to_dict that never writes the error key.
to_dict_NoError(response) == [success |-> response.success, data |-> response.data]

to_dict(response) ==
    IF TruthyStr(response.error)
    THEN [success |-> response.success, data |-> response.data, error |-> response.error]
    ELSE [success |-> response.success, data |-> response.data]

\* An execute without the try/except: the tool's exception leaves it.
execute_NoCatch(outcome) ==
    IF outcome.kind = "return"
    THEN Response(TRUE, outcome.value, None)
    ELSE Raise("Exception")

\* Tool.execute: outcome is what the call of self.function does.
execute(outcome) ==
    IF outcome.kind = "return"
    THEN Response(TRUE, outcome.value, None)
    ELSE Response(FALSE, None, outcome.value)

\* f"Tool {function_name} not found"
NotFoundMessage(function_name) ==
    CASE function_name = "add" -> "Tool add not found"
      [] function_name = "nope" -> "Tool nope not found"

(***************************************************************************)
(* ExecuteToolsAction.run                                                  *)
(***************************************************************************)
\* The JSON text json.dumps writes for one request: the tool's Response when
\* the tool is registered, an error object when it is not.
result_content(function_name, outcome) ==
    IF function_name \in tool_map
    THEN to_dict(execute(outcome))
    ELSE [error |-> NotFoundMessage(function_name)]

\* A loop body that indexes tool_map without testing membership first.
call_raises_KeyError(tool_call, outcome) ==
    IF tool_call.function.arguments = "invalid" THEN "JSONDecodeError"
    ELSE IF tool_call.function.name \notin tool_map THEN "KeyError"
    ELSE IF tool_call.function.arguments = "nonobject" THEN "TypeError"
    ELSE IF outcome.kind = "return" /\ outcome.value = Unserializable THEN "TypeError"
    ELSE None

\* A loop body that consults the registry before it decodes the arguments.
call_raises_LookupFirst(tool_call, outcome) ==
    IF tool_call.function.name \notin tool_map THEN None
    ELSE IF tool_call.function.arguments = "invalid" THEN "JSONDecodeError"
    ELSE IF tool_call.function.arguments = "nonobject" THEN "TypeError"
    ELSE IF outcome.kind = "return" /\ outcome.value = Unserializable THEN "TypeError"
    ELSE None

\* The exception, if any, that leaves the loop body before a result is
\* appended: json.loads on the arguments, then the keyword call of execute,
\* then json.dumps on the tool's Response.
call_raises(tool_call, outcome) ==
    IF tool_call.function.arguments = "invalid" THEN "JSONDecodeError"
    ELSE IF /\ tool_call.function.name \in tool_map
            /\ tool_call.function.arguments = "nonobject" THEN "TypeError"
    ELSE IF /\ tool_call.function.name \in tool_map
            /\ outcome.kind = "return"
            /\ outcome.value = Unserializable THEN "TypeError"
    ELSE None

\* The tool function of request i is called: the tool is registered, the
\* arguments are a JSON object, and no earlier request ended the batch.
Invoked(tool_calls, outcomes, i) ==
    /\ tool_calls[i].function.name \in tool_map
    /\ tool_calls[i].function.arguments = "object"
    /\ \A j \in 1..(i - 1) : call_raises(tool_calls[j], outcomes[j]) = None

\* The outcomes a batch can meet: one per tool function called, none elsewhere.
BatchOutcomes(tool_calls) ==
    {outcomes \in [1..Len(tool_calls) -> ToolOutcomes \cup {NotInvoked}] :
        \A i \in 1..Len(tool_calls) :
            (outcomes[i] # NotInvoked) <=> Invoked(tool_calls, outcomes, i)}

RECURSIVE run_tool_calls(_, _, _, _)
run_tool_calls(tool_calls, outcomes, i, appended) ==
    IF i > Len(tool_calls) THEN [appended |-> appended, raised |-> None]
    ELSE LET tool_call == tool_calls[i]
             function_name == tool_call.function.name
         IN IF call_raises(tool_call, outcomes[i]) # None
            THEN [appended |-> appended, raised |-> call_raises(tool_call, outcomes[i])]
            ELSE run_tool_calls(tool_calls, outcomes, i + 1,
                     Append(appended,
                            ToolMessageAction(tool_call.id, function_name,
                                              result_content(function_name, outcomes[i]))))

\* A batch that gives up at the first tool whose Response is a failure.
RECURSIVE run_stop_on_failure(_, _, _, _)
run_stop_on_failure(tool_calls, outcomes, i, appended) ==
    IF i > Len(tool_calls) THEN [appended |-> appended, raised |-> None]
    ELSE LET tool_call == tool_calls[i]
             function_name == tool_call.function.name
             content == result_content(function_name, outcomes[i])
         IN IF call_raises(tool_call, outcomes[i]) # None
            THEN [appended |-> appended, raised |-> call_raises(tool_call, outcomes[i])]
            ELSE IF "success" \in DOMAIN content /\ ~content.success
            THEN [appended |-> appended, raised |-> "Exception"]
            ELSE run_stop_on_failure(tool_calls, outcomes, i + 1,
                     Append(appended,
                            ToolMessageAction(tool_call.id, function_name, content)))

ExecuteTools_run_StopOnFailure(tool_calls, outcomes) ==
    run_stop_on_failure(tool_calls, outcomes, 1, <<>>)

\* A batch that answers every request under the id of the first one.
ExecuteTools_run_FirstId(tool_calls, outcomes) ==
    LET r == run_tool_calls(tool_calls, outcomes, 1, <<>>) IN
    [appended |-> [i \in 1..Len(r.appended) |->
                      [r.appended[i] EXCEPT !.tool_call_id = tool_calls[1].id]],
     raised |-> r.raised]

\* What run() appends, in order, and the exception that ends it (None: none).
ExecuteTools_run(tool_calls, outcomes) == run_tool_calls(tool_calls, outcomes, 1, <<>>)

(***************************************************************************)
(* MakeLLMRequestAction.run                                                *)
(*                                                                         *)
(* The model boundary either raises or returns one message: a content      *)
(* (None, empty or a text) and tool calls (None or a list).                *)
(***************************************************************************)
Contents == {None, "", "done"}
LoopCallKinds == {<<"add", "object">>, <<"add", "invalid">>}
LoopCallShapes == {<<k>> : k \in LoopCallKinds}
\* Two calls in one response. A call whose arguments do not parse ends the
\* batch, so what follows it is never looked at: one second call is enough.
LoopCallPairs ==
    {<<k1, k2>> : k1, k2 \in LoopCallKinds} \ {<<<<"add", "invalid">>, <<"add", "invalid">>>>}

\* The tool calls of one response: the boundary numbers them from first_id.
MakeCalls(shape, first_id) ==
    [i \in 1..Len(shape) |-> ToolCall(first_id + i - 1, shape[i][1], shape[i][2])]

LLMMessage(content, tool_calls) ==
    [type |-> "message", content |-> content, tool_calls |-> tool_calls]

LLMOutcomes(first_id) ==
    {Raise("APIError")}
    \cup {LLMMessage(c, NoneList) : c \in Contents \cup {Sentinel}}
    \cup {LLMMessage(c, ListOf(<<>>)) : c \in Contents}
    \cup {LLMMessage(c, ListOf(MakeCalls(sh, first_id))) :
                c \in {None, "done"}, sh \in LoopCallShapes}
    \cup {LLMMessage(None, ListOf(MakeCalls(sh, first_id))) : sh \in LoopCallPairs}

\* A run that swallows the boundary's failure and lets the loop go on.
MakeLLMRequest_run_Swallow(history, outcome) ==
    IF outcome.type = "raise"
    THEN [history |-> history, raised |-> None]
    ELSE [history |-> add_assistant_message(history, outcome.content,
                          IF TruthyList(outcome.tool_calls) THEN outcome.tool_calls
                          ELSE NoneList),
          raised |-> None]

\* A run that records the response twice.
MakeLLMRequest_run_Twice(history, outcome) ==
    IF outcome.type = "raise"
    THEN [history |-> history, raised |-> outcome.exc]
    ELSE LET tc == IF TruthyList(outcome.tool_calls) THEN outcome.tool_calls ELSE NoneList
         IN [history |-> add_assistant_message(
                             add_assistant_message(history, outcome.content, tc),
                             outcome.content, tc),
             raised |-> None]

\* The history run() leaves and the exception that leaves it (None: none).
MakeLLMRequest_run(history, outcome) ==
    IF outcome.type = "raise"
    THEN [history |-> history, raised |-> outcome.exc]
    ELSE [history |-> add_assistant_message(history, outcome.content,
                          IF TruthyList(outcome.tool_calls) THEN outcome.tool_calls
                          ELSE NoneList),
          raised |-> None]

(***************************************************************************)
(* CompleteAction.run, EmptyAction.run                                     *)
(***************************************************************************)
Terminal_run(a) == IF a.type = "CompleteAction" THEN a.content ELSE ""

(***************************************************************************)
(* The session store and the server's request threads before any request.  *)
(***************************************************************************)
Threads == {"t1", "t2"}
\* A thread: the request it handles (op, session_id), where its handler stands
\* (pc, i, agent, iterations, action), what it answered (status, response), and
\* what was the case when the request arrived or was served: during_factory
\* (another thread was inside agent_factory, and still is), deleted_before (the
\* returned ids already deleted at arrival), cleared (entries a reset removed).
IdleThread ==
    [op |-> "none", pc |-> "idle", i |-> 0, session_id |-> None, agent |-> 0,
     iterations |-> 0, action |-> NoAction, status |-> 0, response |-> None,
     during_factory |-> FALSE, deleted_before |-> {}, cleared |-> 0]

\* _SessionStore.__init__, and a server that has not been asked anything yet.
InitStore ==
    /\ sessions = << >>
    /\ lock = None
    /\ agents = << >>
    /\ threads = [t \in Threads |-> IdleThread]
    /\ issued = 0
    /\ returned = << >>
    /\ request_count = 0

(***************************************************************************)
(* A RemoteAgentTool before its construction, and the server it will talk  *)
(* to with no session yet.                                                 *)
(***************************************************************************)
NoCall == [call |-> "none", type |-> "none"]
InitRemote ==
    /\ remote_state = "unbuilt"
    /\ remote_session_id = None
    /\ remote_log = << >>
    /\ remote_result = NoCall
    /\ remote_calls = 0
    /\ remote_server = {}

(***************************************************************************)
(* An AgentTool nobody has invoked yet: the loop it wraps is newly built.   *)
(***************************************************************************)
InitAgentTool ==
    /\ sub_history = << >>
    /\ sub_pc = "idle"
    /\ sub_i = 0
    /\ sub_iterations = 0
    /\ sub_action = NoAction
    /\ sub_result = [type |-> "none"]
    /\ call_i = 0
    /\ delegations = 0

\* No conversation has been saved yet.
InitFile == saved_file = None

(***************************************************************************)
(* A DockerSandbox just built: the REPL server runs with an empty env and  *)
(* nothing has been sent to it; the factory has built no loop yet.         *)
(***************************************************************************)
NoExec == [caller |-> 0, code |-> << >>]
InitRepl ==
    /\ repl_env = [name \in {} |-> None]
    /\ repl_alive = TRUE
    /\ repl_stdin = << >>
    /\ repl_stdout = << >>
    /\ repl_served = << >>
    /\ exec_call = NoExec
    /\ exec_log = << >>
    /\ loops = << >>

\* No ConversationWrapper(...) call has been made.
NoKwargs == [name \in {} |-> None]
InitBuild == init_kwargs = NoKwargs

(***************************************************************************)
(* AgenticLoop.run                                                         *)
(***************************************************************************)
Return(value) == [type |-> "return", value |-> value]
NoResult == [type |-> "none"]
NoBatch ==
    [tool_calls |-> <<>>, outcomes |-> <<>>, start |-> 0, appended |-> 0, raised |-> None]
NoResponse == [type |-> "none"]

\* A loop that goes round once more than its budget.
LoopGuard_OffByOne(its, max) == its <= max

\* while iterations < self.max_iterations
LoopGuard(its, max) == its < max

\* A return that hands None through.
ReturnValue_KeepNone(value) == value

\* return result if result is not None else ""
ReturnValue(value) == IF value # None THEN value ELSE ""

Messages == {"q"}

\* run(), up to the loop: the user message is appended, the counter starts at 0.
Run ==
    /\ pc = "idle"
    /\ runs < MaxRuns
    /\ \E message \in Messages :
          conversation_history' = add_user_message(conversation_history, message)
    /\ iterations' = 0
    /\ pc' = "loop"
    /\ action' = NoAction
    /\ result' = NoResult
    /\ plan_log' = <<>>
    /\ llm_response' = NoResponse
    /\ runs' = runs + 1
    /\ UNCHANGED <<max_iterations, llm_calls, llm_messages, next_id, batch>>
    /\ UNCHANGED outsideLoop

\* One pass of the loop head: the guard holds, the counter is incremented and
\* the planner is asked. An exception of the planner leaves run().
LoopPlan ==
    /\ pc = "loop"
    /\ LoopGuard(iterations, max_iterations)
    /\ LET a == step(conversation_history, iterations + 1) IN
          /\ iterations' = iterations + 1
          /\ plan_log' = Append(plan_log, a.type)
          /\ IF a.type = "raise"
             THEN pc' = "idle" /\ result' = a /\ action' = action
             ELSE pc' = "exec" /\ result' = result /\ action' = a
    /\ UNCHANGED <<conversation_history, max_iterations, llm_calls, llm_messages,
                   llm_response, next_id, runs, batch>>
    /\ UNCHANGED outsideLoop

\* The guard fails: run() returns the fixed string.
LoopExit ==
    /\ pc = "loop"
    /\ ~LoopGuard(iterations, max_iterations)
    /\ result' = Return(Sentinel)
    /\ pc' = "idle"
    /\ UNCHANGED <<conversation_history, max_iterations, iterations, action, plan_log,
                   llm_calls, llm_messages, llm_response, next_id, runs, batch>>
    /\ UNCHANGED outsideLoop

\* action.run() of a MakeLLMRequestAction: one call of the model boundary with
\* to_messages() of the history, then the response is appended.
ExecLLM ==
    /\ pc = "exec"
    /\ action.type = "MakeLLMRequestAction"
    /\ llm_calls < MaxLLMCalls
    /\ llm_calls' = llm_calls + 1
    /\ llm_messages' = to_messages(conversation_history)
    /\ \E outcome \in LLMOutcomes(next_id) :
          LET r == MakeLLMRequest_run(conversation_history, outcome) IN
          /\ conversation_history' = r.history
          /\ llm_response' = outcome
          /\ next_id' = IF outcome.type = "raise" THEN next_id
                        ELSE next_id + Len(outcome.tool_calls.items)
          /\ IF r.raised # None
             THEN pc' = "idle" /\ result' = Raise(r.raised)
             ELSE pc' = "loop" /\ result' = result
    /\ UNCHANGED <<max_iterations, iterations, action, plan_log, runs, batch>>
    /\ UNCHANGED outsideLoop

\* action.run() of an ExecuteToolsAction: the whole for loop over the requests.
ExecTools ==
    /\ pc = "exec"
    /\ action.type = "ExecuteToolsAction"
    /\ \E outcomes \in BatchOutcomes(action.tool_calls) :
          LET r == ExecuteTools_run(action.tool_calls, outcomes) IN
          /\ conversation_history' = conversation_history \o r.appended
          /\ batch' = [tool_calls |-> action.tool_calls,
                       outcomes |-> outcomes,
                       start |-> Len(conversation_history),
                       appended |-> Len(r.appended),
                       raised |-> r.raised]
          /\ IF r.raised # None
             THEN pc' = "idle" /\ result' = Raise(r.raised)
             ELSE pc' = "loop" /\ result' = result
    /\ UNCHANGED <<max_iterations, iterations, action, plan_log, llm_calls,
                   llm_messages, llm_response, next_id, runs>>
    /\ UNCHANGED outsideLoop

\* action.run() of a CompleteAction or an EmptyAction, and the return that follows.
ExecTerminal ==
    /\ pc = "exec"
    /\ IsTerminal(action)
    /\ result' = Return(ReturnValue(Terminal_run(action)))
    /\ pc' = "idle"
    /\ UNCHANGED <<conversation_history, max_iterations, iterations, action, plan_log,
                   llm_calls, llm_messages, llm_response, next_id, runs, batch>>
    /\ UNCHANGED outsideLoop

Init ==
    /\ conversation_history = <<>>
    /\ max_iterations \in 0..MaxIter
    /\ pc = "idle"
    /\ iterations = 0
    /\ action = NoAction
    /\ result = NoResult
    /\ plan_log = <<>>
    /\ llm_calls = 0
    /\ llm_messages = <<>>
    /\ llm_response = NoResponse
    /\ next_id = 1
    /\ runs = 0
    /\ batch = NoBatch
    /\ InitStore
    /\ InitRemote
    /\ InitAgentTool
    /\ InitFile
    /\ InitRepl
    /\ InitBuild

Next == Run \/ LoopPlan \/ LoopExit \/ ExecLLM \/ ExecTools \/ ExecTerminal

\* An orchestrator with the real planner, driven by run() calls.
Spec == Init /\ [][Next]_vars

(***************************************************************************)
(* The planner on its own: any history the wrapper's add_* methods can     *)
(* build, and step applied to it with any iteration count.                 *)
(***************************************************************************)
PlannerCalls == <<ToolCall(1, "add", "object"), ToolCall(2, "nope", "invalid")>>
PlannerToolCalls == {NoneList, ListOf(<<>>), ListOf(SubSeq(PlannerCalls, 1, 1)),
                     ListOf(PlannerCalls)}
PlannerPayloads == <<[success |-> TRUE, data |-> "8"], [error |-> NotFoundMessage("nope")]>>

AddSystemMessage ==
    /\ pc \in {"idle", "stepped"}
    /\ Len(conversation_history) < MaxHist
    /\ conversation_history' = add_system_message(conversation_history, "sys")
    /\ pc' = "idle"
    /\ iterations' = 0
    /\ action' = NoAction
    /\ UNCHANGED <<max_iterations, result, plan_log, llm_calls, llm_messages,
                   llm_response, next_id, runs, batch>>
    /\ UNCHANGED outsideLoop

AddUserMessage ==
    /\ pc \in {"idle", "stepped"}
    /\ Len(conversation_history) < MaxHist
    /\ conversation_history' = add_user_message(conversation_history, "q")
    /\ pc' = "idle"
    /\ iterations' = 0
    /\ action' = NoAction
    /\ UNCHANGED <<max_iterations, result, plan_log, llm_calls, llm_messages,
                   llm_response, next_id, runs, batch>>
    /\ UNCHANGED outsideLoop

AddAssistantMessage ==
    /\ pc \in {"idle", "stepped"}
    /\ Len(conversation_history) < MaxHist
    /\ \E content \in Contents, tool_calls \in PlannerToolCalls :
          conversation_history' =
              add_assistant_message(conversation_history, content, tool_calls)
    /\ pc' = "idle"
    /\ iterations' = 0
    /\ action' = NoAction
    /\ UNCHANGED <<max_iterations, result, plan_log, llm_calls, llm_messages,
                   llm_response, next_id, runs, batch>>
    /\ UNCHANGED outsideLoop

AddToolMessage ==
    /\ pc \in {"idle", "stepped"}
    /\ Len(conversation_history) < MaxHist
    /\ \E i \in 1..Len(PlannerCalls) :
          conversation_history' =
              add_tool_message(conversation_history, PlannerCalls[i].id,
                               PlannerCalls[i].function.name, PlannerPayloads[i])
    /\ pc' = "idle"
    /\ iterations' = 0
    /\ action' = NoAction
    /\ UNCHANGED <<max_iterations, result, plan_log, llm_calls, llm_messages,
                   llm_response, next_id, runs, batch>>
    /\ UNCHANGED outsideLoop

\* planner.step(history, iterations=its), called directly.
PlannerStep ==
    /\ pc \in {"idle", "stepped"}
    /\ \E its \in {0, 1, MaxIter} :
          /\ iterations' = its
          /\ action' = step(conversation_history, its)
    /\ pc' = "stepped"
    /\ UNCHANGED <<conversation_history, max_iterations, result, plan_log, llm_calls,
                   llm_messages, llm_response, next_id, runs, batch>>
    /\ UNCHANGED outsideLoop

InitPlanner ==
    /\ conversation_history = <<>>
    /\ max_iterations = 0
    /\ pc = "idle"
    /\ iterations = 0
    /\ action = NoAction
    /\ result = NoResult
    /\ plan_log = <<>>
    /\ llm_calls = 0
    /\ llm_messages = <<>>
    /\ llm_response = NoResponse
    /\ next_id = 1
    /\ runs = 0
    /\ batch = NoBatch
    /\ InitStore
    /\ InitRemote
    /\ InitAgentTool
    /\ InitFile
    /\ InitRepl
    /\ InitBuild

NextPlanner ==
    AddSystemMessage \/ AddUserMessage \/ AddAssistantMessage \/ AddToolMessage
    \/ PlannerStep

SpecPlanner == InitPlanner /\ [][NextPlanner]_vars

(***************************************************************************)
(* The loop with a test double for the planner (tests/test_loop.py): step  *)
(* returns, whatever the history holds, either a stand-in action whose run *)
(* returns None and touches nothing, or a terminal action.                 *)
(***************************************************************************)
MockAction == [type |-> "Mock"]
MockPlannerOutputs(its) ==
    {MockAction, EmptyAction(its)}
    \cup {CompleteAction(c, its) : c \in Contents \cup {Sentinel}}

LoopPlanMock ==
    /\ pc = "loop"
    /\ LoopGuard(iterations, max_iterations)
    /\ iterations' = iterations + 1
    /\ \E a \in MockPlannerOutputs(iterations + 1) :
          /\ action' = a
          /\ plan_log' = Append(plan_log, a.type)
    /\ pc' = "exec"
    /\ UNCHANGED <<conversation_history, max_iterations, result, llm_calls, llm_messages,
                   llm_response, next_id, runs, batch>>
    /\ UNCHANGED outsideLoop

\* action.run() of the stand-in: returns None, so the loop goes round.
ExecMock ==
    /\ pc = "exec"
    /\ action.type = "Mock"
    /\ pc' = "loop"
    /\ UNCHANGED <<conversation_history, max_iterations, iterations, action, result,
                   plan_log, llm_calls, llm_messages, llm_response, next_id, runs, batch>>
    /\ UNCHANGED outsideLoop

NextLoop == Run \/ LoopPlanMock \/ LoopExit \/ ExecMock \/ ExecTerminal

SpecLoop == Init /\ [][NextLoop]_vars

(***************************************************************************)
(* The tool-batch executor from the state in which the loop reaches it:    *)
(* run() has appended the user message, the model has answered with tool   *)
(* calls of any of the kinds above, and the planner has returned the       *)
(* ExecuteToolsAction for them.                                            *)
(***************************************************************************)
CallKinds == ToolNames \X ArgKinds
CallShapes == UNION {[1..n -> CallKinds] : n \in 1..MaxCalls}

InitTools ==
    /\ \E content \in Contents, shape \in CallShapes :
          /\ conversation_history =
                 <<UserMessageAction("q"),
                   AssistantMessageAction(content, ListOf(MakeCalls(shape, 1)))>>
          /\ next_id = 1 + Len(shape)
    /\ max_iterations \in {2, 3}
    /\ pc = "exec"
    /\ iterations = 2
    /\ action = step(conversation_history, 2)
    /\ result = NoResult
    /\ plan_log = <<"MakeLLMRequestAction", "ExecuteToolsAction">>
    /\ llm_calls = 1
    /\ llm_messages = to_messages(<<UserMessageAction("q")>>)
    /\ llm_response = NoResponse
    /\ runs = 1
    /\ batch = NoBatch
    /\ InitStore
    /\ InitRemote
    /\ InitAgentTool
    /\ InitFile
    /\ InitRepl
    /\ InitBuild

NextTools == ExecTools \/ LoopPlan \/ LoopExit

SpecTools == InitTools /\ [][NextTools]_vars

(***************************************************************************)
(* Properties of the planner (checked under SpecPlanner).                  *)
(***************************************************************************)
LastEntry == Last(conversation_history)

\* C1: whenever step was applied to a history whose last entry is an assistant
\* entry with a non-empty list of tool calls, it returned an ExecuteToolsAction
\* carrying exactly that list, whatever the entry's content (None, empty or a
\* text) and whatever precedes the entry.
C1_ToolCallsFirst ==
    (/\ pc = "stepped"
     /\ conversation_history # <<>>
     /\ LastEntry.type = "assistant"
     /\ TruthyList(LastEntry.tool_calls))
    => action = ExecuteToolsAction(LastEntry.tool_calls.items)

C1_Witness ==
    /\ pc = "stepped"
    /\ Len(conversation_history) = 3
    /\ LastEntry.type = "assistant"
    /\ LastEntry.content = "done"
    /\ Len(LastEntry.tool_calls.items) = 2
    /\ conversation_history[2].type = "assistant"
    /\ conversation_history[2].content = "done"
    /\ ~TruthyList(conversation_history[2].tool_calls)
    /\ action.type = "ExecuteToolsAction"

\* C2: the action step returned is the one it returns for the last entry alone,
\* and follows the table: empty history -> EmptyAction with the count passed in;
\* last entry a user or tool entry -> MakeLLMRequestAction; last entry an
\* assistant entry with non-empty content and no tool calls -> CompleteAction
\* with that content and the count passed in.
C2_DecisionTable ==
    pc = "stepped" =>
        /\ conversation_history = <<>> => action = EmptyAction(iterations)
        /\ conversation_history # <<>> =>
              /\ action = step(<<LastEntry>>, iterations)
              /\ LastEntry.type \in {"user", "tool"} => action = MakeLLMRequestAction
              /\ (/\ LastEntry.type = "assistant"
                  /\ TruthyStr(LastEntry.content)
                  /\ ~TruthyList(LastEntry.tool_calls))
                 => action = CompleteAction(LastEntry.content, iterations)

C2_Witness ==
    /\ pc = "stepped"
    /\ Len(conversation_history) = 3
    /\ conversation_history[1].type = "assistant"
    /\ TruthyList(conversation_history[1].tool_calls)
    /\ conversation_history[2].type = "tool"
    /\ LastEntry = AssistantMessageAction("done", ListOf(<<>>))
    /\ iterations = MaxIter
    /\ action = CompleteAction("done", MaxIter)

(***************************************************************************)
(* Properties of the loop under any planner (checked under SpecLoop).      *)
(***************************************************************************)
NoTerminalPlanned ==
    \A i \in 1..Len(plan_log) : plan_log[i] \notin {"CompleteAction", "EmptyAction"}

\* C3: in every run the planner is invoked at most max_iterations times, and a
\* run in which the planner produced no terminal action ends only after exactly
\* max_iterations invocations, returning "Max iterations reached"; this for
\* every max_iterations >= 0.
C3_Exhaustion ==
    /\ Len(plan_log) <= max_iterations
    /\ (pc = "idle" /\ runs > 0 /\ NoTerminalPlanned)
       => (result = Return(Sentinel) /\ Len(plan_log) = max_iterations)

C3_Witness ==
    /\ pc = "idle"
    /\ runs = 2
    /\ max_iterations = 3
    /\ plan_log = <<"Mock", "Mock", "Mock">>
    /\ result = Return("Max iterations reached")

(***************************************************************************)
(* Properties of the tool-batch executor (checked under SpecTools).        *)
(***************************************************************************)
BatchRan == batch.tool_calls # <<>>
BatchSize == Len(batch.tool_calls)
\* The entries the latest batch appended follow position batch.start.
BatchAppended == batch.appended
BatchEntry(i) == conversation_history[batch.start + i]
BatchName(i) == batch.tool_calls[i].function.name
BatchArgs(i) == batch.tool_calls[i].function.arguments

\* Entry i of the batch answers request i: a tool entry with its id and name.
Answers(i) ==
    /\ BatchEntry(i).type = "tool"
    /\ BatchEntry(i).tool_call_id = batch.tool_calls[i].id
    /\ BatchEntry(i).name = BatchName(i)

\* The arguments of request i decode to what the loop body needs: valid JSON,
\* and a JSON object when the tool is registered and so called with them.
Decodes(i) ==
    \/ BatchArgs(i) = "object"
    \/ BatchArgs(i) = "nonobject" /\ BatchName(i) \notin tool_map

\* Request i can be serviced: its arguments decode and, if its tool returns,
\* the value returned is one json.dumps can encode.
Serviceable(i) ==
    /\ Decodes(i)
    /\ batch.outcomes[i] # [kind |-> "return", value |-> Unserializable]

AllAnswered ==
    /\ BatchAppended = BatchSize
    /\ \A i \in 1..BatchSize : Answers(i)
    /\ batch.raised = None
    /\ result.type # "raise"

Reached(i) == BatchAppended >= i - 1

UnknownAnswered(i) ==
    /\ BatchAppended >= i
    /\ Answers(i)
    /\ "error" \in DOMAIN BatchEntry(i).content
    /\ BatchEntry(i).content.error = NotFoundMessage(BatchName(i))
    /\ (i < BatchSize /\ Serviceable(i + 1))
       => (BatchAppended >= i + 1 /\ Answers(i + 1))

C6_UniformPayload ==
    BatchRan =>
        \A i \in 1..BatchAppended :
            LET payload == BatchEntry(i).content IN
            /\ {"success", "data"} \subseteq DOMAIN payload
            /\ payload.success \in BOOLEAN
            /\ (~payload.success \/ BatchName(i) \notin tool_map)
               => ("error" \in DOMAIN payload /\ payload.error # None)

(***************************************************************************)
(* Properties of runs with the real planner (checked under Spec).          *)
(***************************************************************************)
\* The ids of the tool calls a message (of to_messages) carries.
RequestedIds(message) ==
    IF "tool_calls" \in DOMAIN message
    THEN {message.tool_calls[k].id : k \in 1..Len(message.tool_calls)}
    ELSE {}

\* Every tool call of every assistant message has a tool message with its id
\* later in the sequence.
NoDanglingRequest(messages) ==
    \A i \in 1..Len(messages) :
        messages[i].role = "assistant" =>
            \A id \in RequestedIds(messages[i]) :
                \E j \in (i + 1)..Len(messages) :
                    messages[j].role = "tool" /\ messages[j].tool_call_id = id

\* C7: whenever the model boundary is invoked, over any sequence of run calls,
\* the transcript it is given holds no dangling tool request: every tool call
\* of every assistant entry has a tool entry with its id later on.
C7_NoDanglingAtModelCall == llm_calls > 0 => NoDanglingRequest(llm_messages)

\* The nearest assistant entry before position p (0: none).
RequestingEntry(p) ==
    LET before == {k \in 1..(p - 1) : conversation_history[k].type = "assistant"}
    IN IF before = {} THEN 0 ELSE CHOOSE k \in before : \A m \in before : m <= k

\* C8: every tool entry of the history answers a request of the most recent
\* assistant entry before it, the results of one batch stand in request order
\* (the i-th entry after the assistant entry carries the id and tool name of
\* its i-th request), and no request is answered twice: no two tool entries
\* carry the same id, so none answers a request of an older assistant entry.
C8_ResultsMatchRequests ==
    \A p \in 1..Len(conversation_history) :
        conversation_history[p].type = "tool" =>
            LET a == RequestingEntry(p)
                requests == conversation_history[a].tool_calls.items
            IN /\ a > 0
               /\ p - a <= Len(requests)
               /\ conversation_history[p].tool_call_id = requests[p - a].id
               /\ conversation_history[p].name = requests[p - a].function.name
               /\ \A q \in 1..(p - 1) :
                     conversation_history[q].type = "tool"
                     => conversation_history[q].tool_call_id
                            # conversation_history[p].tool_call_id

C8_Witness ==
    /\ Len(conversation_history) = 7
    /\ conversation_history[2].type = "assistant"
    /\ Len(conversation_history[2].tool_calls.items) = 2
    /\ conversation_history[3].type = "tool" /\ conversation_history[3].tool_call_id = 1
    /\ conversation_history[4].type = "tool" /\ conversation_history[4].tool_call_id = 2
    /\ conversation_history[5].type = "assistant"
    /\ conversation_history[6].type = "tool" /\ conversation_history[6].tool_call_id = 3
    /\ conversation_history[7].type = "tool" /\ conversation_history[7].tool_call_id = 4
    /\ batch.start = 5

\* The entries a step appends are those of the new history past the old one.
Appends(n) ==
    /\ Len(conversation_history') = Len(conversation_history) + n
    /\ SubSeq(conversation_history', 1, Len(conversation_history)) = conversation_history
NewEntryTypes ==
    {conversation_history'[k].type :
        k \in (Len(conversation_history) + 1)..Len(conversation_history')}
AtModelTurn == pc = "exec" /\ action.type = "MakeLLMRequestAction"
AtToolBatch == pc = "exec" /\ action.type = "ExecuteToolsAction"

\* C9: a step that carries out a MakeLLMRequestAction invokes the model boundary
\* exactly once, with to_messages() of the whole history, and, when the call
\* returns, appends exactly one entry: the assistant entry with the response's
\* content and tool calls. The boundary is invoked by no other step, an
\* assistant entry is appended only by such a step, and tool entries only by a
\* step that carries out an ExecuteToolsAction.
C9_ModelTurnOrder ==
    [][/\ AtModelTurn =>
            /\ llm_calls' = llm_calls + 1
            /\ llm_messages' = to_messages(conversation_history)
            /\ Len(llm_messages') = Len(conversation_history)
            /\ llm_response'.type = "message" =>
                  /\ Appends(1)
                  /\ Last(conversation_history').type = "assistant"
                  /\ Last(conversation_history').content = llm_response'.content
                  /\ Last(conversation_history').tool_calls =
                         (IF TruthyList(llm_response'.tool_calls)
                          THEN llm_response'.tool_calls ELSE NoneList)
       /\ ~AtModelTurn => (llm_calls' = llm_calls /\ "assistant" \notin NewEntryTypes)
       /\ ~AtToolBatch => "tool" \notin NewEntryTypes
       /\ AtToolBatch => NewEntryTypes \subseteq {"tool"}
      ]_vars

C9_Witness ==
    /\ llm_calls = 2
    /\ llm_response.type = "message"
    /\ llm_response.content = "done"
    /\ llm_response.tool_calls = ListOf(<<>>)
    /\ Len(llm_messages) = 4
    /\ llm_messages[4].role = "tool"
    /\ Len(conversation_history) = 5
    /\ LastEntry = AssistantMessageAction("done", NoneList)
    /\ pc = "loop"

\* C10: once the model boundary has raised in a run, that run is over and ended
\* by that exception: control is back at the caller, the result is the raised
\* error (neither a returned text nor the sentinel), nothing was appended for
\* the failed call, and so no further call of the boundary is made in the run.
C10_ModelFailurePropagates ==
    llm_response.type = "raise" =>
        /\ pc = "idle"
        /\ result = Raise(llm_response.exc)
        /\ Last(plan_log) = "MakeLLMRequestAction"
        /\ Len(llm_messages) = Len(conversation_history)

C10_Witness ==
    /\ llm_response = Raise("APIError")
    /\ llm_calls = 2
    /\ runs = 1
    /\ Len(plan_log) = 3
    /\ pc = "idle"
    /\ result = Raise("APIError")

\* The last entries step has no rule for: a system entry, and an assistant
\* entry with neither a non-empty text nor a non-empty list of tool calls.
MalformedLast ==
    {SystemMessageAction(c) : c \in {"", "sys"}}
    \cup {AssistantMessageAction(c, tc) : c \in {None, ""}, tc \in {NoneList, ListOf(<<>>)}}
IsMalformedLast(entry) ==
    \/ entry.type = "system"
    \/ /\ entry.type = "assistant"
       /\ ~TruthyStr(entry.content)
       /\ ~TruthyList(entry.tool_calls)

\* C11: step applied to a history that ends in a system entry, or in an
\* assistant entry with neither non-empty text nor tool calls, raises
\* NotImplementedError whatever precedes that entry; and a run whose planner
\* raised is over at once with that exception as its outcome: it was raised
\* on such a last entry, the raising call is the planner's last of the run and
\* no value is returned.
C11_MalformedRaises ==
    /\ \A entry \in MalformedLast :
          step(Append(conversation_history, entry), iterations)
              = Raise("NotImplementedError")
    /\ \A i \in 1..Len(plan_log) :
          plan_log[i] = "raise" =>
              /\ i = Len(plan_log)
              /\ pc = "idle"
              /\ result = Raise("NotImplementedError")
              /\ IsMalformedLast(LastEntry)
    /\ (pc = "loop" /\ LoopGuard(iterations, max_iterations)
           /\ IsMalformedLast(LastEntry))
       => step(conversation_history, iterations + 1) = Raise("NotImplementedError")

C11_Witness ==
    /\ pc = "idle"
    /\ result = Raise("NotImplementedError")
    /\ plan_log = <<"MakeLLMRequestAction", "ExecuteToolsAction",
                    "MakeLLMRequestAction", "raise">>
    /\ llm_response = LLMMessage(None, ListOf(<<>>))
    /\ LastEntry = AssistantMessageAction(None, NoneList)
    /\ llm_calls = 2

(***************************************************************************)
(* Properties of the way run() ends.                                       *)
(***************************************************************************)
\* The text a terminal action carries, the empty string standing in for None.
CarriedText(a) ==
    IF a.type = "CompleteAction" /\ a.content # None THEN a.content ELSE ""
EndedByTerminal ==
    /\ pc = "idle"
    /\ plan_log # <<>>
    /\ Last(plan_log) \in {"CompleteAction", "EmptyAction"}

\* C12 (checked under SpecLoop): once the planner has returned a CompleteAction
\* or an EmptyAction, the very next step of the run is its return: the value is
\* the text the action carries ("" for an EmptyAction and for a content of
\* None), the planner is not asked again, nothing is appended and no call of
\* the model is made, however many iterations the budget still allows; and a
\* terminal action is always the last output of the planner in its run.
C12_TerminalReturns ==
    [][/\ (pc = "exec" /\ IsTerminal(action)) =>
            /\ pc' = "idle"
            /\ result' = Return(CarriedText(action))
            /\ plan_log' = plan_log
            /\ conversation_history' = conversation_history
            /\ llm_calls' = llm_calls
            /\ batch' = batch
       /\ \A i \in 1..Len(plan_log') :
             plan_log'[i] \in {"CompleteAction", "EmptyAction"} => i = Len(plan_log')
      ]_vars

C12_Witness ==
    /\ EndedByTerminal
    /\ action = CompleteAction(None, 2)
    /\ result = Return("")
    /\ max_iterations = MaxIter
    /\ plan_log = <<"Mock", "CompleteAction">>
    /\ runs = 2

\* C13 (checked under Spec): a run that ends with a terminal action never
\* returns the string run() returns when the iteration budget is exhausted.
C13_SentinelDistinct ==
    (EndedByTerminal /\ result.type = "return") => result.value # Sentinel

(***************************************************************************)
(* _SessionStore and the session endpoints of create_agent_app             *)
(* (Server/base.py). Each request is handled by a thread of the server's   *)
(* pool; the steps of different threads interleave. A thread keeps the     *)
(* response of its last request until it takes the next one.               *)
(***************************************************************************)
\* uuid4().hex: a string no earlier call has returned (the n+1-th of them).
Hex == <<"a1", "b2", "c3", "d4", "e5", "f6", "a7", "b8">>
uuid4_Repeating(n) == Hex[1]
uuid4(n) == Hex[n + 1]

\* An id no call of uuid4 returns: a client's made-up session id.
UnknownId == "ffff"

\* The statements of _SessionStore.create in program order. "acquire" and
\* "release" are the entry and the exit of `with self._lock`.
create_body_LockedFactory == <<"acquire", "agent_factory", "uuid4", "setitem", "release">>
create_body_UuidFirst == <<"uuid4", "agent_factory", "acquire", "setitem", "release">>
create_body == <<"agent_factory", "uuid4", "acquire", "setitem", "release">>

\* self._sessions[session_id] = agent
setitem(store, session_id, agent) ==
    [k \in DOMAIN store \cup {session_id} |-> IF k = session_id THEN agent ELSE store[k]]

\* _SessionStore.get, inside the lock.
get_FirstSession(store, session_id) ==
    IF session_id \in DOMAIN store
    THEN [agent |-> store[session_id], raised |-> None]
    ELSE IF DOMAIN store # {}
    THEN [agent |-> store[CHOOSE k \in DOMAIN store : TRUE], raised |-> None]
    ELSE [agent |-> 0, raised |-> "KeyError"]
get(store, session_id) ==
    IF session_id \in DOMAIN store
    THEN [agent |-> store[session_id], raised |-> None]
    ELSE [agent |-> 0, raised |-> "KeyError"]

\* _SessionStore.delete, inside the lock.
delete_All(store, session_id) ==
    IF session_id \in DOMAIN store
    THEN [sessions |-> << >>, raised |-> None]
    ELSE [sessions |-> store, raised |-> "KeyError"]
\* A delete that ignores a missing id (self._sessions.pop(session_id, None)).
delete_Quiet(store, session_id) ==
    [sessions |-> [k \in DOMAIN store \ {session_id} |-> store[k]], raised |-> None]
delete(store, session_id) ==
    IF session_id \in DOMAIN store
    THEN [sessions |-> [k \in DOMAIN store \ {session_id} |-> store[k]], raised |-> None]
    ELSE [sessions |-> store, raised |-> "KeyError"]

\* BaseConversationWrapper.reset: the history is replaced by an empty list.
\* A reset that keeps the first entry (a system prompt, say).
reset_KeepFirst(history) == IF history = << >> THEN << >> ELSE <<history[1]>>
reset(history) == << >>

\* What agent_factory() builds: a loop with a conversation of its own.
factory == [conversation_history |-> << >>, max_iterations |-> SessionMaxIter]
FactoryOutcomes == {"return", "raise"}

\* What the model boundary does in a session's run.
SessionLLMOutcomes(first_id) ==
    {Raise("APIError"),
     LLMMessage("done", NoneList),
     LLMMessage(None, ListOf(<<ToolCall(first_id, "nope", "object")>>)),
     LLMMessage(None, ListOf(<<ToolCall(first_id, "nope", "object"),
                               ToolCall(first_id + 1, "nope", "invalid")>>))}

History(a) == agents[a].conversation_history
\* The request is answered: the thread keeps what it was asked and what it
\* answered; the locals of the handler are gone.
Done(th, status, response) ==
    [th EXCEPT !.pc = "done", !.status = status, !.response = response,
               !.i = 0, !.iterations = 0, !.action = NoAction]
\* The thread after one statement of create: at the next one, or returning
\* the id, which POST /sessions answers with 201.
Advanced(th) ==
    IF th.i < Len(create_body)
    THEN [th EXCEPT !.i = th.i + 1, !.pc = create_body[th.i + 1]]
    ELSE Done(th, 201, th.session_id)
ReturnedAfter(th) ==
    IF Advanced(th).pc = "done" THEN setitem(returned, th.session_id, th.agent)
    ELSE returned
InFactory(t) == threads[t].pc = "in_factory"
PendingFactories ==
    {u \in Threads : threads[u].op = "create" /\ threads[u].pc # "done"
                     /\ threads[u].agent = 0}
Free(t) == threads[t].pc \in {"idle", "done"} /\ request_count < MaxRequests
KnownIds == DOMAIN returned \cup {UnknownId}

\* POST /sessions arrives.
StartCreate(t) ==
    /\ Free(t)
    /\ Len(agents) + Cardinality(PendingFactories) < MaxSessions
    /\ threads' = [threads EXCEPT ![t] =
           [IdleThread EXCEPT !.op = "create", !.pc = create_body[1], !.i = 1,
                              !.during_factory = \E u \in Threads \ {t} : InFactory(u),
                              !.deleted_before = DOMAIN returned \ DOMAIN sessions]]
    /\ request_count' = request_count + 1
    /\ UNCHANGED <<sessions, lock, agents, issued, returned>>
    /\ UNCHANGED outsideStore

\* create: agent_factory is called ...
CreateCallFactory(t) ==
    /\ threads[t].op = "create"
    /\ threads[t].pc = "agent_factory"
    /\ threads' = [threads EXCEPT ![t].pc = "in_factory"]
    /\ UNCHANGED <<sessions, lock, agents, issued, returned, request_count>>
    /\ UNCHANGED outsideStore

\* ... and returns a new loop, or raises: the exception leaves create (and the
\* with block, if it is inside one) and create_session answers 500.
CreateFactoryReturns(t) ==
    /\ threads[t].op = "create"
    /\ InFactory(t)
    /\ \E outcome \in FactoryOutcomes :
          LET th == IF outcome = "raise"
                    THEN Done(threads[t], 500, "factory failed")
                    ELSE Advanced([threads[t] EXCEPT !.agent = Len(agents) + 1])
          IN /\ threads' = [u \in Threads |->
                    IF u = t THEN th ELSE [threads[u] EXCEPT !.during_factory = FALSE]]
             /\ agents' = IF outcome = "raise" THEN agents ELSE Append(agents, factory)
             /\ lock' = IF outcome = "raise" /\ lock = t THEN None ELSE lock
    /\ UNCHANGED <<sessions, issued, returned, request_count>>
    /\ UNCHANGED outsideStore

\* create: session_id = uuid4().hex
CreateUuid4(t) ==
    /\ threads[t].op = "create"
    /\ threads[t].pc = "uuid4"
    /\ threads' = [threads EXCEPT ![t] =
           Advanced([threads[t] EXCEPT !.session_id = uuid4(issued)])]
    /\ issued' = issued + 1
    /\ UNCHANGED <<sessions, lock, agents, returned, request_count>>
    /\ UNCHANGED outsideStore

\* create: with self._lock (entry)
CreateAcquire(t) ==
    /\ threads[t].op = "create"
    /\ threads[t].pc = "acquire"
    /\ lock = None
    /\ lock' = t
    /\ threads' = [threads EXCEPT ![t] = Advanced(threads[t])]
    /\ UNCHANGED <<sessions, agents, issued, returned, request_count>>
    /\ UNCHANGED outsideStore

\* create: self._sessions[session_id] = agent
CreateSetitem(t) ==
    /\ threads[t].op = "create"
    /\ threads[t].pc = "setitem"
    /\ sessions' = setitem(sessions, threads[t].session_id, threads[t].agent)
    /\ threads' = [threads EXCEPT ![t] = Advanced(threads[t])]
    /\ UNCHANGED <<lock, agents, issued, returned, request_count>>
    /\ UNCHANGED outsideStore

\* create: the with block is left, and the id is returned.
CreateRelease(t) ==
    /\ threads[t].op = "create"
    /\ threads[t].pc = "release"
    /\ lock' = None
    /\ threads' = [threads EXCEPT ![t] = Advanced(threads[t])]
    /\ returned' = ReturnedAfter(threads[t])
    /\ UNCHANGED <<sessions, agents, issued, request_count>>
    /\ UNCHANGED outsideStore

\* A request for a session arrives: its id is one that POST /sessions has
\* returned, or one the store never issued.
Started(t, op, first_pc, session_id) ==
    [IdleThread EXCEPT !.op = op, !.pc = first_pc, !.session_id = session_id,
                       !.during_factory = \E u \in Threads \ {t} : InFactory(u),
                       !.deleted_before = DOMAIN returned \ DOMAIN sessions]

\* POST /sessions/{id}/run arrives.
StartRun(t) ==
    /\ Free(t)
    /\ \E session_id \in KnownIds :
          /\ session_id \in DOMAIN returned
             => Len(History(returned[session_id])) < MaxHist
          /\ threads' = [threads EXCEPT ![t] = Started(t, "run", "get", session_id)]
    /\ request_count' = request_count + 1
    /\ UNCHANGED <<sessions, lock, agents, issued, returned>>
    /\ UNCHANGED outsideStore

\* POST /sessions/{id}/reset arrives.
StartReset(t) ==
    /\ Free(t)
    /\ \E session_id \in KnownIds :
          threads' = [threads EXCEPT ![t] = Started(t, "reset", "get", session_id)]
    /\ request_count' = request_count + 1
    /\ UNCHANGED <<sessions, lock, agents, issued, returned>>
    /\ UNCHANGED outsideStore

\* DELETE /sessions/{id} arrives.
StartDelete(t) ==
    /\ Free(t)
    /\ \E session_id \in KnownIds :
          threads' = [threads EXCEPT ![t] = Started(t, "delete", "delete", session_id)]
    /\ request_count' = request_count + 1
    /\ UNCHANGED <<sessions, lock, agents, issued, returned>>
    /\ UNCHANGED outsideStore

\* session_run / session_reset: store.get(session_id), the whole with block;
\* KeyError becomes 404.
StoreGet(t) ==
    /\ threads[t].pc = "get"
    /\ lock = None
    /\ LET r == get(sessions, threads[t].session_id) IN
          threads' = [threads EXCEPT ![t] =
              IF r.raised # None THEN Done(threads[t], 404, "Session not found")
              ELSE [threads[t] EXCEPT !.agent = r.agent, !.pc = threads[t].op]]
    /\ UNCHANGED <<sessions, lock, agents, issued, returned, request_count>>
    /\ UNCHANGED outsideStore

\* delete_session: store.delete(session_id), the whole with block.
StoreDelete(t) ==
    /\ threads[t].pc = "delete"
    /\ lock = None
    /\ LET r == delete(sessions, threads[t].session_id) IN
          /\ sessions' = r.sessions
          /\ threads' = [threads EXCEPT ![t] =
                 IF r.raised # None THEN Done(threads[t], 404, "Session not found")
                 ELSE Done(threads[t], 200, "ok")]
    /\ UNCHANGED <<lock, agents, issued, returned, request_count>>
    /\ UNCHANGED outsideStore

\* session_reset: agent.reset()
SessionReset(t) ==
    /\ threads[t].pc = "reset"
    /\ LET a == threads[t].agent IN
          /\ agents' = [agents EXCEPT ![a].conversation_history = reset(@)]
          /\ threads' = [threads EXCEPT ![t] =
                 Done([threads[t] EXCEPT !.cleared = Len(History(a))], 200, "ok")]
    /\ UNCHANGED <<sessions, lock, issued, returned, request_count>>
    /\ UNCHANGED outsideStore

\* session_run: agent.run(message), up to the loop.
SessionRun(t) ==
    /\ threads[t].pc = "run"
    /\ LET a == threads[t].agent IN
          \E message \in Messages :
              agents' = [agents EXCEPT ![a].conversation_history =
                                            add_user_message(@, message)]
    /\ threads' = [threads EXCEPT ![t].pc = "loop", ![t].iterations = 0]
    /\ UNCHANGED <<sessions, lock, issued, returned, request_count>>
    /\ UNCHANGED outsideStore

\* agent.run: the loop head and the planner; an exception of the planner
\* leaves run and the endpoint (500).
SessionLoopPlan(t) ==
    /\ threads[t].pc = "loop"
    /\ LET a == threads[t].agent
           its == threads[t].iterations
       IN /\ LoopGuard(its, agents[a].max_iterations)
          /\ LET planned == step(History(a), its + 1) IN
                threads' = [threads EXCEPT ![t] =
                    IF planned.type = "raise"
                    THEN Done([threads[t] EXCEPT !.iterations = its + 1], 500, planned.exc)
                    ELSE [threads[t] EXCEPT !.iterations = its + 1, !.pc = "exec",
                                            !.action = planned]]
    /\ UNCHANGED <<sessions, lock, agents, issued, returned, request_count>>
    /\ UNCHANGED outsideStore

\* agent.run: the budget is used up; the endpoint answers with the fixed string.
SessionLoopExit(t) ==
    /\ threads[t].pc = "loop"
    /\ ~LoopGuard(threads[t].iterations, agents[threads[t].agent].max_iterations)
    /\ threads' = [threads EXCEPT ![t] = Done(threads[t], 200, Sentinel)]
    /\ UNCHANGED <<sessions, lock, agents, issued, returned, request_count>>
    /\ UNCHANGED outsideStore

\* agent.run: action.run() of a MakeLLMRequestAction.
SessionExecLLM(t) ==
    /\ threads[t].pc = "exec"
    /\ threads[t].action.type = "MakeLLMRequestAction"
    /\ LET a == threads[t].agent IN
          \E outcome \in SessionLLMOutcomes(Len(History(a))) :
              LET r == MakeLLMRequest_run(History(a), outcome) IN
              /\ agents' = [agents EXCEPT ![a].conversation_history = r.history]
              /\ threads' = [threads EXCEPT ![t] =
                     IF r.raised # None THEN Done(threads[t], 500, r.raised)
                     ELSE [threads[t] EXCEPT !.pc = "loop"]]
    /\ UNCHANGED <<sessions, lock, issued, returned, request_count>>
    /\ UNCHANGED outsideStore

\* agent.run: action.run() of an ExecuteToolsAction.
SessionExecTools(t) ==
    /\ threads[t].pc = "exec"
    /\ threads[t].action.type = "ExecuteToolsAction"
    /\ LET a == threads[t].agent
           tool_calls == threads[t].action.tool_calls
       IN \E outcomes \in BatchOutcomes(tool_calls) :
              LET r == ExecuteTools_run(tool_calls, outcomes) IN
              /\ agents' = [agents EXCEPT ![a].conversation_history = @ \o r.appended]
              /\ threads' = [threads EXCEPT ![t] =
                     IF r.raised # None THEN Done(threads[t], 500, r.raised)
                     ELSE [threads[t] EXCEPT !.pc = "loop"]]
    /\ UNCHANGED <<sessions, lock, issued, returned, request_count>>
    /\ UNCHANGED outsideStore

\* agent.run: a terminal action; the endpoint answers with what run returns.
SessionExecTerminal(t) ==
    /\ threads[t].pc = "exec"
    /\ IsTerminal(threads[t].action)
    /\ threads' = [threads EXCEPT ![t] =
           Done(threads[t], 200, ReturnValue(Terminal_run(threads[t].action)))]
    /\ UNCHANGED <<sessions, lock, agents, issued, returned, request_count>>
    /\ UNCHANGED outsideStore

InitServer ==
    /\ conversation_history = <<>>
    /\ max_iterations = 0
    /\ pc = "idle"
    /\ iterations = 0
    /\ action = NoAction
    /\ result = NoResult
    /\ plan_log = <<>>
    /\ llm_calls = 0
    /\ llm_messages = <<>>
    /\ llm_response = NoResponse
    /\ next_id = 1
    /\ runs = 0
    /\ batch = NoBatch
    /\ InitStore
    /\ InitRemote
    /\ InitAgentTool
    /\ InitFile
    /\ InitRepl
    /\ InitBuild

NextServer ==
    \/ \E t \in Threads : StartCreate(t)
    \/ \E t \in Threads : CreateCallFactory(t)
    \/ \E t \in Threads : CreateFactoryReturns(t)
    \/ \E t \in Threads : CreateUuid4(t)
    \/ \E t \in Threads : CreateAcquire(t)
    \/ \E t \in Threads : CreateSetitem(t)
    \/ \E t \in Threads : CreateRelease(t)
    \/ \E t \in Threads : StartRun(t)
    \/ \E t \in Threads : StartReset(t)
    \/ \E t \in Threads : StartDelete(t)
    \/ \E t \in Threads : StoreGet(t)
    \/ \E t \in Threads : StoreDelete(t)
    \/ \E t \in Threads : SessionReset(t)
    \/ \E t \in Threads : SessionRun(t)
    \/ \E t \in Threads : SessionLoopPlan(t)
    \/ \E t \in Threads : SessionLoopExit(t)
    \/ \E t \in Threads : SessionExecLLM(t)
    \/ \E t \in Threads : SessionExecTools(t)
    \/ \E t \in Threads : SessionExecTerminal(t)

\* The server of create_agent_app under concurrent requests.
SpecServer == InitServer /\ [][NextServer]_vars

(***************************************************************************)
(* Properties of the session store (checked under SpecServer).             *)
(***************************************************************************)
\* The thread whose handler takes the step: every statement moves its pc.
StepOf(t) == threads'[t].pc # threads[t].pc
Registered(session_id) == session_id \in DOMAIN sessions
\* No loop instance was returned under two session ids.
OneIdPerAgent ==
    \A s1, s2 \in DOMAIN returned : returned[s1] = returned[s2] => s1 = s2

\* C14: sessions never share a loop instance, and every step that changes the
\* history of an instance is a step of a run or reset request addressed to the
\* id that instance was returned under, so a run or reset on one session leaves
\* the history of every other session as it was; a delete removes the entry of
\* its own id only, and a run or reset whose id is registered when it is looked
\* up is never answered 404, whichever sessions were deleted before.
C14_SessionIsolation ==
    /\ []OneIdPerAgent
    /\ [][/\ \A a \in 1..Len(agents) :
                agents'[a] # agents[a] =>
                    \E t \in Threads :
                        /\ StepOf(t)
                        /\ threads[t].op \in {"run", "reset"}
                        /\ threads[t].session_id \in DOMAIN returned
                        /\ returned[threads[t].session_id] = a
          /\ \A t \in Threads :
                (StepOf(t) /\ threads[t].pc = "delete") =>
                    \A s \in DOMAIN sessions \ {threads[t].session_id} :
                        s \in DOMAIN sessions' /\ sessions'[s] = sessions[s]
          /\ \A t \in Threads :
                (StepOf(t) /\ threads[t].pc = "get" /\ Registered(threads[t].session_id))
                => /\ threads'[t].status # 404
                   /\ threads'[t].agent = returned[threads[t].session_id]
         ]_vars

C14_Witness ==
    /\ DOMAIN returned = {"a1", "b2"}
    /\ DOMAIN sessions = {"a1"}
    /\ \E t \in Threads :
          /\ threads[t].op = "run"
          /\ threads[t].session_id = "a1"
          /\ threads[t].deleted_before = {"b2"}
          /\ threads[t].pc = "done"
          /\ threads[t].status = 200
          /\ threads[t].response = "done"
    /\ History(returned["a1"]) = <<UserMessageAction("q"), AssistantMessageAction("done", NoneList)>>
    /\ History(returned["b2"]) = << >>

\* C15: a run, reset or delete request whose session id is not registered when
\* the store looks it up (an id never issued, or one already deleted) is
\* answered 404 by that very step, and the step changes nothing else: the
\* session map, the loop instances and the ids issued and returned stay as
\* they were, and no loop is run or reset for it.
C15_NotFound ==
    [][\A t \in Threads :
          (/\ StepOf(t)
           /\ threads[t].pc \in {"get", "delete"}
           /\ ~Registered(threads[t].session_id))
          => /\ threads'[t].pc = "done"
             /\ threads'[t].status = 404
             /\ threads'[t].agent = 0
             /\ UNCHANGED <<sessions, agents, issued, returned, lock>>
      ]_vars

C15_Witness ==
    /\ DOMAIN returned = {"a1"}
    /\ sessions = << >>
    /\ threads["t1"].op = "run"
    /\ threads["t1"].session_id = "a1"
    /\ threads["t1"].deleted_before = {"a1"}
    /\ threads["t1"].status = 404
    /\ threads["t2"].op = "delete"
    /\ threads["t2"].session_id = UnknownId
    /\ threads["t2"].status = 404
    /\ History(1) = << >>

\* C16: the step in which agent_factory raises answers POST /sessions with 500
\* and leaves the session map, the ids issued and the ids returned as they
\* were; the failed create has generated no id and does not hold the lock.
C16_FactoryFailure ==
    /\ [](\A t \in Threads :
             (threads[t].op = "create" /\ threads[t].status = 500)
             => (threads[t].session_id = None /\ threads[t].pc = "done" /\ lock # t))
    /\ [][\A t \in Threads :
             (StepOf(t) /\ threads[t].op = "create" /\ threads'[t].status # 201
              /\ threads'[t].pc = "done")
             => /\ InFactory(t)
                /\ threads'[t].status = 500
                /\ UNCHANGED <<sessions, issued, returned, agents>>
         ]_vars

C16_Witness ==
    /\ threads["t2"].op = "create"
    /\ threads["t2"].status = 500
    /\ threads["t2"].session_id = None
    /\ DOMAIN sessions = {"a1"}
    /\ issued = 1
    /\ Len(agents) = 1
    /\ threads["t1"].op = "create"
    /\ threads["t1"].status = 201

\* C17: a thread that is inside agent_factory does not hold the store's lock;
\* the lock is held only by a create between its acquire and its release, that
\* is across the assignment to the map. So a get, a delete or another create
\* is never kept waiting by a factory call.
C17_FactoryOutsideLock ==
    /\ \A t \in Threads : InFactory(t) => lock # t
    /\ lock # None => threads[lock].pc \in {"setitem", "release"}
    /\ \A t \in Threads : threads[t].pc \in {"setitem", "release"} => lock = t

C17_Witness ==
    /\ InFactory("t1")
    /\ threads["t2"].during_factory
    /\ threads["t2"].op = "delete"
    /\ threads["t2"].session_id = "a1"
    /\ threads["t2"].status = 200
    /\ sessions = << >>

\* C18: the id a create has generated differs from every id generated by
\* another create and from every id returned before; every returned id that is
\* still registered maps to the loop its own create built, and distinct ids map
\* to distinct loops; an entry of the map is never changed, and it is removed
\* only by a delete of its own id.
C18_FreshIds ==
    /\ [](/\ \A t, u \in Threads :
                (t # u /\ threads[t].op = "create" /\ threads[u].op = "create"
                 /\ threads[t].session_id # None)
                => threads[t].session_id # threads[u].session_id
          /\ \A t \in Threads :
                (threads[t].op = "create" /\ threads[t].session_id # None)
                => IF threads[t].pc = "done"
                   THEN /\ threads[t].session_id \in DOMAIN returned
                        /\ returned[threads[t].session_id] = threads[t].agent
                   ELSE threads[t].session_id \notin DOMAIN returned
          /\ \A s \in DOMAIN returned : Registered(s) => sessions[s] = returned[s]
          /\ OneIdPerAgent)
    /\ [][\A s \in DOMAIN sessions :
             IF s \in DOMAIN sessions'
             THEN sessions'[s] = sessions[s]
             ELSE \E t \in Threads :
                      StepOf(t) /\ threads[t].pc = "delete" /\ threads[t].session_id = s
         ]_vars

C18_Witness ==
    /\ threads["t1"].op = "create" /\ threads["t1"].status = 201
    /\ threads["t2"].op = "create" /\ threads["t2"].status = 201
    /\ threads["t1"].response = "b2"
    /\ threads["t2"].response = "a1"
    /\ threads["t1"].agent = 1
    /\ threads["t2"].agent = 2
    /\ sessions = returned
    /\ sessions["a1"] = 2 /\ sessions["b2"] = 1

\* C19: the step of a reset request that calls agent.reset() leaves the history
\* of the session's loop empty whatever it held, answers 200, and leaves the
\* session map as it was (same id, same loop instance); the first step of a
\* run appends the user entry to the history as it is, hence to an empty
\* history after a reset.
C19_Reset ==
    [][\A t \in Threads :
          /\ (StepOf(t) /\ threads[t].pc = "reset") =>
                /\ History(threads[t].agent)' = << >>
                /\ threads'[t].status = 200
                /\ sessions' = sessions
                /\ \A a \in 1..Len(agents) : a # threads[t].agent => agents'[a] = agents[a]
          /\ (StepOf(t) /\ threads[t].pc = "run") =>
                /\ History(threads[t].agent)'
                       = Append(History(threads[t].agent), UserMessageAction("q"))
                /\ History(threads[t].agent) = << >>
                   => History(threads[t].agent)' = <<UserMessageAction("q")>>
      ]_vars

C19_Witness ==
    /\ threads["t1"].op = "reset"
    /\ threads["t1"].status = 200
    /\ threads["t1"].cleared = 2
    /\ threads["t1"].session_id = "a1"
    /\ threads["t2"].op = "run"
    /\ threads["t2"].session_id = "a1"
    /\ threads["t2"].pc = "loop"
    /\ threads["t2"].iterations = 0
    /\ History(1) = <<UserMessageAction("q")>>
    /\ sessions = [a1 |-> 1]

(***************************************************************************)
(* RemoteAgentTool (Tools/remote_agent_tool.py) and the server behind its  *)
(* base_url. A request either gets no response (requests raises            *)
(* ConnectionError; status 0 in the log) or the status the endpoints of    *)
(* Server/base.py give it.                                                 *)
(***************************************************************************)
Sent(method, path, session_id, status) ==
    [method |-> method, path |-> path, session_id |-> session_id, status |-> status]
NoResponseStatus == 0

\* response.raise_for_status()
raise_for_status(status) == IF status >= 400 THEN "HTTPError" ELSE None

\* What the server can answer to a request for a session: 404 when the id is
\* not registered; otherwise 200, or for a run or a reset also 500 (the
\* handler raised, or something between the tool and the server failed).
SessionStatuses(path, session_id, server) ==
    IF session_id \notin server THEN {404}
    ELSE IF path \in {"run", "reset"} THEN {200, 500} ELSE {200}
Answers_(path, session_id, server) ==
    {NoResponseStatus} \cup SessionStatuses(path, session_id, server)

Ended(call, type, value) == [call |-> call, type |-> type, value |-> value]

\* A close that forgets to clear the id.
close_KeepId(session_id, status) ==
    IF session_id = None
    THEN [session_id |-> None, sent |-> << >>]
    ELSE [session_id |-> session_id,
          sent |-> <<Sent("DELETE", "session", session_id, status)>>]

\* RemoteAgentTool.close: nothing when there is no id; otherwise one DELETE,
\* whose exception is swallowed and whose status is not looked at, and the id
\* is cleared. status is what the DELETE would get.
close(session_id, status) ==
    IF session_id = None
    THEN [session_id |-> None, sent |-> << >>]
    ELSE [session_id |-> None,
          sent |-> <<Sent("DELETE", "session", session_id, status)>>]

\* RemoteAgentTool.__init__: GET /info, then POST /sessions; either may get no
\* response or an error status, and then the constructor raises.
RemoteNew ==
    /\ remote_state = "unbuilt"
    /\ \E info_status \in {NoResponseStatus, 200, 500},
          create_status \in {NoResponseStatus, 201, 500} :
          LET info == Sent("GET", "info", None, info_status)
              create == Sent("POST", "sessions", None, create_status)
              new_id == uuid4(0)
          IN IF info_status # 200
             THEN /\ remote_log' = <<info>>
                  /\ remote_state' = "failed"
                  /\ remote_session_id' = None
                  /\ remote_server' = remote_server
                  /\ remote_result' = Ended("__init__", "raise",
                         IF info_status = NoResponseStatus THEN "ConnectionError"
                         ELSE "HTTPError")
             ELSE IF create_status # 201
             THEN /\ remote_log' = <<info, create>>
                  /\ remote_state' = "failed"
                  /\ remote_session_id' = None
                  /\ remote_server' = remote_server
                  /\ remote_result' = Ended("__init__", "raise",
                         IF create_status = NoResponseStatus THEN "ConnectionError"
                         ELSE "HTTPError")
             ELSE /\ remote_log' = <<info, create>>
                  /\ remote_state' = "ready"
                  /\ remote_session_id' = new_id
                  /\ remote_server' = remote_server \cup {new_id}
                  /\ remote_result' = Ended("__init__", "return", None)
    /\ UNCHANGED remote_calls
    /\ UNCHANGED outsideRemote

\* A _delegate that runs the task first and resets afterwards.
delegate_RunFirst(session_id, reset_status, run_status) ==
    LET reset_sent == Sent("POST", "reset", session_id, reset_status)
        run_sent == Sent("POST", "run", session_id, run_status)
    IN IF run_status = NoResponseStatus
       THEN [sent |-> <<run_sent>>,
             result |-> Ended("_delegate", "raise", "ConnectionError")]
       ELSE IF raise_for_status(run_status) # None
       THEN [sent |-> <<run_sent>>,
             result |-> Ended("_delegate", "raise", raise_for_status(run_status))]
       ELSE IF reset_status = NoResponseStatus
       THEN [sent |-> <<run_sent, reset_sent>>,
             result |-> Ended("_delegate", "raise", "ConnectionError")]
       ELSE [sent |-> <<run_sent, reset_sent>>,
             result |-> Ended("_delegate", "return", "done")]

\* RemoteAgentTool._delegate: POST reset (an exception of requests.post leaves
\* the method; the status of the response is not looked at), POST run,
\* raise_for_status, the response text. reset_status and run_status are what
\* the two requests get.
delegate(session_id, reset_status, run_status) ==
    LET reset_sent == Sent("POST", "reset", session_id, reset_status)
        run_sent == Sent("POST", "run", session_id, run_status)
    IN IF reset_status = NoResponseStatus
       THEN [sent |-> <<reset_sent>>,
             result |-> Ended("_delegate", "raise", "ConnectionError")]
       ELSE [sent |-> <<reset_sent, run_sent>>,
             result |-> IF run_status = NoResponseStatus
                        THEN Ended("_delegate", "raise", "ConnectionError")
                        ELSE IF raise_for_status(run_status) # None
                        THEN Ended("_delegate", "raise", raise_for_status(run_status))
                        ELSE Ended("_delegate", "return", "done")]

\* One call of _delegate.
RemoteDelegate ==
    /\ remote_state = "ready"
    /\ remote_calls < MaxRemoteCalls
    /\ remote_calls' = remote_calls + 1
    /\ \E reset_status \in Answers_("reset", remote_session_id, remote_server),
          run_status \in Answers_("run", remote_session_id, remote_server) :
          LET r == delegate(remote_session_id, reset_status, run_status) IN
          /\ remote_log' = remote_log \o r.sent
          /\ remote_result' = r.result
    /\ UNCHANGED <<remote_state, remote_session_id, remote_server>>
    /\ UNCHANGED outsideRemote

\* RemoteAgentTool.close, called by the owner or by __del__.
RemoteClose ==
    /\ remote_state \in {"ready", "failed"}
    /\ remote_calls < MaxRemoteCalls
    /\ remote_calls' = remote_calls + 1
    /\ \E status \in Answers_("session", remote_session_id, remote_server) :
          LET r == close(remote_session_id, status) IN
          /\ remote_session_id' = r.session_id
          /\ remote_log' = remote_log \o r.sent
          /\ remote_server' =
                 IF r.sent # << >> /\ status = 200
                 THEN remote_server \ {remote_session_id} ELSE remote_server
          /\ remote_result' = Ended("close", "return", None)
    /\ UNCHANGED remote_state
    /\ UNCHANGED outsideRemote

InitRemoteTool ==
    /\ conversation_history = <<>>
    /\ max_iterations = 0
    /\ pc = "idle"
    /\ iterations = 0
    /\ action = NoAction
    /\ result = NoResult
    /\ plan_log = <<>>
    /\ llm_calls = 0
    /\ llm_messages = <<>>
    /\ llm_response = NoResponse
    /\ next_id = 1
    /\ runs = 0
    /\ batch = NoBatch
    /\ InitStore
    /\ InitRemote
    /\ InitAgentTool
    /\ InitFile
    /\ InitRepl
    /\ InitBuild

NextRemote == RemoteNew \/ RemoteDelegate \/ RemoteClose

\* One RemoteAgentTool over its life: built, used and closed by one caller.
SpecRemote == InitRemoteTool /\ [][NextRemote]_vars

\* The DELETE requests sent so far.
Deletes == {k \in 1..Len(remote_log) : remote_log[k].method = "DELETE"}

\* C20: close never raises; a close on a tool that holds no session id sends
\* nothing and changes nothing, a close on a tool that holds one sends one
\* DELETE and clears the id whatever the DELETE gets (a status or no response),
\* and in all at most one DELETE is ever sent.
C20_CloseIdempotent ==
    /\ [](Cardinality(Deletes) <= 1)
    /\ [](remote_result.call = "close" =>
             (remote_result.type = "return" /\ remote_session_id = None))
    /\ [][(remote_result'.call = "close" /\ remote_calls' # remote_calls) =>
             IF remote_session_id = None
             THEN UNCHANGED <<remote_log, remote_server, remote_session_id, remote_state>>
             ELSE /\ Len(remote_log') = Len(remote_log) + 1
                  /\ Last(remote_log').method = "DELETE"
                  /\ Last(remote_log').session_id = remote_session_id
                  /\ Deletes = {}
         ]_vars

C20_Witness ==
    /\ remote_state = "ready"
    /\ remote_calls = 3
    /\ Len(remote_log) = 5
    /\ remote_log[3].path = "reset"
    /\ remote_log[5] = Sent("DELETE", "session", "a1", NoResponseStatus)
    /\ remote_result = Ended("close", "return", None)
    /\ remote_session_id = None
    /\ remote_server = {"a1"}

(***************************************************************************)
(* AgentTool (Tools/agent_tool.py): a parent loop whose only tool wraps a  *)
(* second loop, the sub-agent. The parent is the loop of the variables     *)
(* above; the sub-agent has a history, a counter and a planner of its own. *)
(* One thread runs both: while _delegate is active the parent stands       *)
(* inside its tool batch.                                                  *)
(***************************************************************************)
AgentToolName == "math_expert"
Task == "t"

\* The statements of AgentTool._delegate in program order; the value of the
\* run is what _delegate returns.
AgentTool_delegate_RunFirst == <<"run", "reset">>
AgentTool_delegate == <<"reset", "run">>

\* What the model boundary gives the parent: a failure, a final text, or one
\* or two requests for the sub-agent.
AgentCall == <<AgentToolName, "object">>
ParentLLMOutcomes(first_id) ==
    {Raise("APIError"), LLMMessage("done", NoneList)}
    \cup {LLMMessage(None, ListOf(MakeCalls(sh, first_id))) :
             sh \in {<<AgentCall>>, <<AgentCall, AgentCall>>}}

\* What the model boundary gives the sub-agent: a failure, a final text, a
\* message with neither text nor tool calls (the planner has no rule for it),
\* or a request for a tool the sub-agent does not have.
SubLLMOutcomes(first_id) ==
    {Raise("APIError"), LLMMessage("42", NoneList), LLMMessage(None, NoneList),
     LLMMessage(None, ListOf(<<ToolCall(first_id, "nope", "object")>>))}

\* What Tool.execute sees of self.function(**kwargs), here _delegate: the
\* text the sub-agent's run returned, or the exception that left it, whose
\* str() is its message.
DelegateOutcome(r) ==
    IF r.type = "return" THEN [kind |-> "return", value |-> r.value]
    ELSE [kind |-> "raise", value |-> r.exc]

\* The parent's model turn.
AgentExecLLM ==
    /\ pc = "exec"
    /\ action.type = "MakeLLMRequestAction"
    /\ llm_calls < MaxLLMCalls
    /\ llm_calls' = llm_calls + 1
    /\ llm_messages' = to_messages(conversation_history)
    /\ \E outcome \in ParentLLMOutcomes(next_id) :
          LET r == MakeLLMRequest_run(conversation_history, outcome) IN
          /\ conversation_history' = r.history
          /\ llm_response' = outcome
          /\ next_id' = IF outcome.type = "raise" THEN next_id
                        ELSE next_id + Len(outcome.tool_calls.items)
          /\ IF r.raised # None
             THEN pc' = "idle" /\ result' = Raise(r.raised)
             ELSE pc' = "loop" /\ result' = result
    /\ UNCHANGED <<max_iterations, iterations, action, plan_log, runs, batch>>
    /\ UNCHANGED outsideLoop

\* The parent's ExecuteToolsAction.run reaches its next request: the arguments
\* decode, Tool.execute calls _delegate, and _delegate is at its first statement.
AgentToolCall ==
    /\ pc = "exec"
    /\ action.type = "ExecuteToolsAction"
    /\ sub_pc = "idle"
    /\ call_i < Len(action.tool_calls)
    /\ call_i' = call_i + 1
    /\ delegations' = delegations + 1
    /\ sub_i' = 1
    /\ sub_pc' = AgentTool_delegate[1]
    /\ sub_result' = [type |-> "none"]
    /\ UNCHANGED <<sub_history, sub_iterations, sub_action>>
    /\ UNCHANGED <<loopVars, outsideAgent>>

\* Where _delegate stands after its statement sub_i: at the next one, or back
\* in Tool.execute.
AfterStatement ==
    IF sub_i < Len(AgentTool_delegate)
    THEN /\ sub_i' = sub_i + 1
         /\ sub_pc' = AgentTool_delegate[sub_i + 1]
    ELSE /\ sub_i' = 0
         /\ sub_pc' = "returned"
\* An exception leaves run and _delegate.
Leaves(exc) ==
    /\ sub_result' = Raise(exc)
    /\ sub_i' = 0
    /\ sub_pc' = "returned"

\* _delegate: self.agent.reset()
SubReset ==
    /\ sub_pc = "reset"
    /\ sub_history' = reset(sub_history)
    /\ AfterStatement
    /\ UNCHANGED <<sub_iterations, sub_action, sub_result, call_i, delegations>>
    /\ UNCHANGED <<loopVars, outsideAgent>>

\* _delegate: self.agent.run(task), up to the loop.
SubRun ==
    /\ sub_pc = "run"
    /\ sub_history' = add_user_message(sub_history, Task)
    /\ sub_iterations' = 0
    /\ sub_action' = NoAction
    /\ sub_pc' = "loop"
    /\ UNCHANGED <<sub_i, sub_result, call_i, delegations>>
    /\ UNCHANGED <<loopVars, outsideAgent>>

\* The sub-agent's run: loop head and planner.
SubLoopPlan ==
    /\ sub_pc = "loop"
    /\ LoopGuard(sub_iterations, SessionMaxIter)
    /\ sub_iterations' = sub_iterations + 1
    /\ LET planned == step(sub_history, sub_iterations + 1) IN
          IF planned.type = "raise"
          THEN Leaves(planned.exc) /\ sub_action' = sub_action
          ELSE /\ sub_action' = planned
               /\ sub_pc' = "exec"
               /\ UNCHANGED <<sub_i, sub_result>>
    /\ UNCHANGED <<sub_history, call_i, delegations>>
    /\ UNCHANGED <<loopVars, outsideAgent>>

\* The sub-agent's run: the budget is used up.
SubLoopExit ==
    /\ sub_pc = "loop"
    /\ ~LoopGuard(sub_iterations, SessionMaxIter)
    /\ sub_result' = Return(Sentinel)
    /\ AfterStatement
    /\ UNCHANGED <<sub_history, sub_iterations, sub_action, call_i, delegations>>
    /\ UNCHANGED <<loopVars, outsideAgent>>

\* The sub-agent's run: its model turn.
SubExecLLM ==
    /\ sub_pc = "exec"
    /\ sub_action.type = "MakeLLMRequestAction"
    /\ \E outcome \in SubLLMOutcomes(Len(sub_history)) :
          LET r == MakeLLMRequest_run(sub_history, outcome) IN
          /\ sub_history' = r.history
          /\ IF r.raised # None
             THEN Leaves(r.raised)
             ELSE sub_pc' = "loop" /\ UNCHANGED <<sub_i, sub_result>>
    /\ UNCHANGED <<sub_iterations, sub_action, call_i, delegations>>
    /\ UNCHANGED <<loopVars, outsideAgent>>

\* The sub-agent's run: its tool batch.
SubExecTools ==
    /\ sub_pc = "exec"
    /\ sub_action.type = "ExecuteToolsAction"
    /\ \E outcomes \in BatchOutcomes(sub_action.tool_calls) :
          LET r == ExecuteTools_run(sub_action.tool_calls, outcomes) IN
          /\ sub_history' = sub_history \o r.appended
          /\ IF r.raised # None
             THEN Leaves(r.raised)
             ELSE sub_pc' = "loop" /\ UNCHANGED <<sub_i, sub_result>>
    /\ UNCHANGED <<sub_iterations, sub_action, call_i, delegations>>
    /\ UNCHANGED <<loopVars, outsideAgent>>

\* The sub-agent's run: a terminal action, and the return that follows.
SubExecTerminal ==
    /\ sub_pc = "exec"
    /\ IsTerminal(sub_action)
    /\ sub_result' = Return(ReturnValue(Terminal_run(sub_action)))
    /\ AfterStatement
    /\ UNCHANGED <<sub_history, sub_iterations, sub_action, call_i, delegations>>
    /\ UNCHANGED <<loopVars, outsideAgent>>

\* _delegate is over: Tool.execute makes a Response of what it did, and the
\* parent's batch appends it under the request's id and goes to the next
\* request, or back to the loop after the last one. An exception leaving
\* execute would leave the batch and the parent's run.
AgentToolReturn ==
    /\ sub_pc = "returned"
    /\ sub_pc' = "idle"
    /\ LET tool_call == action.tool_calls[call_i]
           response == execute(DelegateOutcome(sub_result))
       IN IF "type" \in DOMAIN response
          THEN /\ pc' = "idle"
               /\ result' = response
               /\ call_i' = 0
               /\ UNCHANGED conversation_history
          ELSE /\ conversation_history' =
                      add_tool_message(conversation_history, tool_call.id,
                                       tool_call.function.name, to_dict(response))
               /\ result' = result
               /\ IF call_i = Len(action.tool_calls)
                  THEN pc' = "loop" /\ call_i' = 0
                  ELSE pc' = pc /\ call_i' = call_i
    /\ UNCHANGED <<max_iterations, iterations, action, plan_log, llm_calls, llm_messages,
                   llm_response, next_id, runs, batch>>
    /\ UNCHANGED <<sub_history, sub_i, sub_iterations, sub_action, sub_result, delegations>>
    /\ UNCHANGED outsideAgent

InitAgent ==
    /\ conversation_history = <<>>
    /\ max_iterations = MaxIter
    /\ pc = "idle"
    /\ iterations = 0
    /\ action = NoAction
    /\ result = NoResult
    /\ plan_log = <<>>
    /\ llm_calls = 0
    /\ llm_messages = <<>>
    /\ llm_response = NoResponse
    /\ next_id = 1
    /\ runs = 0
    /\ batch = NoBatch
    /\ InitStore
    /\ InitRemote
    /\ InitAgentTool
    /\ InitFile
    /\ InitRepl
    /\ InitBuild

NextAgent ==
    \/ Run \/ LoopPlan \/ LoopExit \/ ExecTerminal \/ AgentExecLLM
    \/ AgentToolCall \/ SubReset \/ SubRun \/ SubLoopPlan \/ SubLoopExit
    \/ SubExecLLM \/ SubExecTools \/ SubExecTerminal \/ AgentToolReturn

\* A parent orchestrator that delegates to a sub-agent through an AgentTool.
SpecAgent == InitAgent /\ [][NextAgent]_vars

(***************************************************************************)
(* Properties of the AgentTool (checked under SpecAgent).                  *)
(***************************************************************************)
\* The step in which Tool.execute hands the outcome of _delegate to the batch.
ToolReturns == sub_pc = "returned" /\ sub_pc' = "idle"
ServedCall == action.tool_calls[call_i]

\* C21: _delegate starts with the reset, the run follows it, and when the
\* sub-agent's run reaches its loop for the first time its history is the
\* task's user entry and nothing else; the text the run returns is the data
\* of the tool result the parent appends for the request.
C21_ResetThenRun ==
    /\ []((sub_pc = "loop" /\ sub_iterations = 0) =>
             sub_history = <<UserMessageAction(Task)>>)
    /\ [][(sub_pc = "idle" /\ sub_pc' # "idle") => sub_pc' = "reset"]_vars
    /\ [][(sub_pc = "reset" /\ sub_pc' # "reset") =>
             (sub_pc' = "run" /\ sub_history' = << >>)]_vars
    /\ [][(ToolReturns /\ sub_result.type = "return") =>
             conversation_history' =
                 Append(conversation_history,
                        ToolMessageAction(ServedCall.id, AgentToolName,
                                          [success |-> TRUE, data |-> sub_result.value]))
         ]_vars

C21_Witness ==
    /\ delegations = 2
    /\ sub_pc = "loop"
    /\ sub_iterations = 0
    /\ sub_history = <<UserMessageAction(Task)>>
    /\ Len(conversation_history) = 3
    /\ conversation_history[3] =
           ToolMessageAction(1, AgentToolName, [success |-> TRUE, data |-> "42"])
    /\ call_i = 2

\* C24: when the sub-agent's run ends with an exception, the parent appends a
\* tool result for the request with success false, no data and the
\* exception's message, its run is not left, and after the last request of the
\* batch the parent is back at its loop head with a model turn as the
\* planner's next decision; the only exception that leaves the parent's run is
\* one of its own model boundary.
C24_SubAgentFailureContained ==
    /\ [][(ToolReturns /\ sub_result.type = "raise") =>
             /\ conversation_history' =
                    Append(conversation_history,
                           ToolMessageAction(ServedCall.id, AgentToolName,
                                             [success |-> FALSE, data |-> None,
                                              error |-> sub_result.exc]))
             /\ result' = result
             /\ pc' = IF call_i = Len(action.tool_calls) THEN "loop" ELSE "exec"
             /\ step(conversation_history', iterations + 1) = MakeLLMRequestAction
         ]_vars
    /\ [](result.type = "raise" => (llm_response.type = "raise" /\ sub_pc = "idle"))

C24_Witness ==
    /\ result = Return("done")
    /\ runs = 1
    /\ delegations = 2
    /\ Len(conversation_history) = 5
    /\ conversation_history[3] =
           ToolMessageAction(1, AgentToolName,
               [success |-> FALSE, data |-> None, error |-> "APIError"])
    /\ conversation_history[4] =
           ToolMessageAction(2, AgentToolName,
               [success |-> FALSE, data |-> None, error |-> "NotImplementedError"])
    /\ conversation_history[5] = AssistantMessageAction("done", NoneList)

(***************************************************************************)
(* save_conversation and load_conversation (Client/base.py). The file      *)
(* holds the JSON text json.dump writes for to_messages(): an array of     *)
(* objects whose members are JSON strings, null, or an array (tool_calls). *)
(***************************************************************************)
JsonNull == [json |-> "null"]
JsonString(text) == [json |-> "string", text |-> text]
JsonArray(items) == [json |-> "array", items |-> items]

\* json.dump, member by member: None is written as null (only the content of
\* an assistant message can be None), a list as an array.
json_dump_member(role, key, value) ==
    IF key = "tool_calls" THEN JsonArray(value)
    ELSE IF role = "assistant" /\ key = "content" /\ value = None THEN JsonNull
    ELSE JsonString(value)
json_dump(messages) ==
    [i \in 1..Len(messages) |->
        [key \in DOMAIN messages[i] |->
            json_dump_member(messages[i].role, key, messages[i][key])]]

\* json.load, member by member.
json_load_member(member) ==
    CASE member.json = "null" -> None
      [] member.json = "array" -> member.items
      [] member.json = "string" -> member.text
json_load(text) ==
    [i \in 1..Len(text) |-> [key \in DOMAIN text[i] |-> json_load_member(text[i][key])]]

\* <Message>Action.from_message, one branch per role; msg.get(key) is None
\* when the key is missing.
from_message(msg) ==
    CASE msg.role = "system" -> SystemMessageAction(msg.content)
      [] msg.role = "user" -> UserMessageAction(msg.content)
      [] msg.role = "assistant" ->
            AssistantMessageAction(
                IF "content" \in DOMAIN msg THEN msg.content ELSE None,
                IF "tool_calls" \in DOMAIN msg THEN ListOf(msg.tool_calls) ELSE NoneList)
      [] msg.role = "tool" -> ToolMessageAction(msg.tool_call_id, msg.name, msg.content)

\* What save_conversation writes for a history, and the history
\* load_conversation builds from a file.
save_conversation(history) == json_dump(to_messages(history))
load_conversation(text) ==
    LET messages == json_load(text) IN
    [i \in 1..Len(messages) |-> from_message(messages[i])]

\* conv.save_conversation(filepath)
SaveConversation ==
    /\ pc = "idle"
    /\ saved_file' = save_conversation(conversation_history)
    /\ pc' = "saved"
    /\ UNCHANGED <<conversation_history, max_iterations, iterations, action, result,
                   plan_log, llm_calls, llm_messages, llm_response, next_id, runs, batch>>
    /\ UNCHANGED <<storeVars, remoteVars, agentVars, replVars, buildVars>>

\* conv.load_conversation(filepath), on the file written last.
LoadConversation ==
    /\ pc = "saved"
    /\ conversation_history' = load_conversation(saved_file)
    /\ pc' = "loaded"
    /\ UNCHANGED <<max_iterations, iterations, action, result, plan_log, llm_calls,
                   llm_messages, llm_response, next_id, runs, batch>>
    /\ UNCHANGED <<storeVars, remoteVars, agentVars, fileVars, replVars, buildVars>>

NextFile ==
    AddSystemMessage \/ AddUserMessage \/ AddAssistantMessage \/ AddToolMessage
    \/ SaveConversation \/ LoadConversation

\* A conversation built with the add_* methods, saved, and loaded again.
SpecFile == InitPlanner /\ [][NextFile]_vars

\* C25 (checked under SpecFile): load_conversation on the file that
\* save_conversation wrote gives the history that was saved: the same length,
\* the same entry class at every position, the same field values.
C25_RoundTrip ==
    [][(pc = "saved" /\ pc' = "loaded") =>
          /\ Len(conversation_history') = Len(conversation_history)
          /\ \A i \in 1..Len(conversation_history) :
                /\ conversation_history'[i].type = conversation_history[i].type
                /\ conversation_history'[i] = conversation_history[i]
      ]_vars

\* What the latest call sent: the requests the log gained in this step.
NewlySent == SubSeq(remote_log', Len(remote_log) + 1, Len(remote_log'))
DelegateStep == remote_calls' # remote_calls /\ remote_result'.call = "_delegate"
Creates == {k \in 1..Len(remote_log) : remote_log[k].path = "sessions"}

C23_FailedRequestRaises ==
    (/\ remote_result.call = "_delegate"
     /\ remote_log # << >>
     /\ \/ Last(remote_log).status >= 400
        \/ /\ Len(remote_log) >= 2
           /\ Last(remote_log).path = "run"
           /\ remote_log[Len(remote_log) - 1].status >= 400)
    => remote_result.type = "raise"

(***************************************************************************)
(* The REPL channel: Sandbox/_repl_server.py inside the container and      *)
(* DockerSandbox.execute outside it, joined by the exec socket.            *)
(*                                                                         *)
(* A code is a sequence of statements. Only what exec makes of them        *)
(* matters here: assignments to globals, reads of globals, writes to the   *)
(* two redirected streams, and how the code ends. A text is the sequence   *)
(* of the pieces written to it. A line on the socket is the JSON text of a *)
(* value, or a text that is not JSON.                                      *)
(***************************************************************************)
Assign(name, value) == [op |-> "assign", arg |-> name, value |-> value]
PrintVar(name) == [op |-> "print", arg |-> name, value |-> None]
Write(stream, text) == [op |-> "write", arg |-> stream, value |-> text]
RaiseStmt(exc) == [op |-> "raise", arg |-> exc, value |-> None]
\* while True: pass
Spin == [op |-> "spin", arg |-> None, value |-> None]
\* try: while True: pass / except TimeoutError: pass -- the code catches the
\* exception timeout_handler raises in it and goes on.
SpinCaught == [op |-> "spin_caught", arg |-> None, value |-> None]
\* sys.exit(0)
Exit == [op |-> "exit", arg |-> None, value |-> None]

Codes ==
    {<<Assign("x", "1")>>,
     <<Assign("x", "2"), Spin>>,
     <<PrintVar("x")>>,
     <<Write("stdout", "o"), Write("stderr", "e")>>,
     <<Write("stdout", "o"), Write("stderr", "e"), Spin>>,
     <<Write("stdout", "o"), RaiseStmt("ValueError")>>,
     <<Exit>>}

\* env[name] = value
Bind(env, name, value) ==
    [n \in DOMAIN env \cup {name} |-> IF n = name THEN value ELSE env[n]]

\* How exec leaves: by reaching the end of the code (exc is None) or with an
\* exception. SIGALRM arrives while the code spins, and timeout_handler raises
\* TimeoutError inside it; every other statement ends long before the alarm.
Left(exc, env, out, err) == [exc |-> exc, env |-> env, stdout |-> out, stderr |-> err]

RECURSIVE exec_from(_, _, _, _, _)
exec_from(code, i, env, out, err) ==
    IF i > Len(code) THEN Left(None, env, out, err)
    ELSE LET s == code[i] IN
         CASE s.op = "assign" -> exec_from(code, i + 1, Bind(env, s.arg, s.value), out, err)
           [] s.op = "print" ->
                 IF s.arg \in DOMAIN env
                 THEN exec_from(code, i + 1, env, Append(out, env[s.arg]), err)
                 ELSE Left("NameError", env, out, err)
           [] s.op = "write" ->
                 IF s.arg = "stdout"
                 THEN exec_from(code, i + 1, env, Append(out, s.value), err)
                 ELSE exec_from(code, i + 1, env, out, Append(err, s.value))
           [] s.op = "raise" -> Left(s.arg, env, out, err)
           [] s.op = "spin" -> Left("TimeoutError", env, out, err)
           [] s.op = "spin_caught" -> exec_from(code, i + 1, env, out, err)
           [] s.op = "exit" -> Left("SystemExit", env, out, err)

\* An exec whose globals do not outlive a failure.
exec_DropOnFailure(code, env) ==
    LET r == exec_from(code, 1, env, << >>, << >>) IN
    IF r.exc = None THEN r ELSE [r EXCEPT !.env = [name \in {} |-> None]]

\* exec(code, env) under the two redirections.
exec(code, env) == exec_from(code, 1, env, << >>, << >>)

\* The exceptions that "except Exception" catches.
Exceptions == {"ValueError", "NameError", "TimeoutError"}

\* json.dumps and json.loads on the values that cross the socket: strings,
\* booleans, integers and dicts of them, which the text gives back unchanged.
dumps(value) == [json |-> TRUE, value |-> value]
NotJson == [json |-> FALSE, value |-> None]
loads(line) == IF line.json THEN [type |-> "return", value |-> line.value]
               ELSE Raise("JSONDecodeError")

ExecutionResult(stdout, stderr, success, exit_code) ==
    [stdout |-> stdout, stderr |-> stderr, success |-> success, exit_code |-> exit_code]

\* One pass of main's for loop on a line that is not blank: what env is
\* afterwards, the lines written to stdout, and whether the loop goes on.
main_body(line, env) ==
    IF loads(line).type = "raise"
    THEN [env |-> env, alive |-> TRUE,
          written |-> <<dumps(ExecutionResult(<< >>, <<"Invalid JSON command">>, FALSE, 1))>>]
    ELSE LET command == loads(line).value
             r == exec(command.code, env)
         IN CASE r.exc = None ->
                    [env |-> r.env, alive |-> TRUE,
                     written |-> <<dumps(ExecutionResult(r.stdout, r.stderr, TRUE, 0))>>]
              [] r.exc = "TimeoutError" ->
                    [env |-> r.env, alive |-> TRUE,
                     written |-> <<dumps(ExecutionResult(r.stdout,
                                          <<"Code execution timed out">>, FALSE, 124))>>]
              [] r.exc \in Exceptions \ {"TimeoutError"} ->
                    [env |-> r.env, alive |-> TRUE,
                     written |-> <<dumps(ExecutionResult(r.stdout,
                                          <<"Traceback", r.exc>>, FALSE, 1))>>]
              [] OTHER -> [env |-> r.env, alive |-> FALSE, written |-> << >>]

\* A DockerSandbox.execute that reports every failure with exit code 1.
parse_response_ExitOne(raw) ==
    IF loads(raw).type = "raise"
    THEN ExecutionResult(<< >>, <<"Failed to parse REPL response">>, FALSE, 1)
    ELSE LET parsed == loads(raw).value IN
         ExecutionResult(parsed.stdout, parsed.stderr, parsed.success,
                         IF parsed.success THEN 0 ELSE 1)

\* DockerSandbox.execute, after the first complete line has arrived.
parse_response(raw) ==
    IF loads(raw).type = "raise"
    THEN ExecutionResult(<< >>, <<"Failed to parse REPL response">>, FALSE, 1)
    ELSE LET parsed == loads(raw).value IN
         ExecutionResult(parsed.stdout, parsed.stderr, parsed.success, parsed.exit_code)
\* DockerSandbox.execute, when recv gives no bytes.
ConnectionClosed == ExecutionResult(<< >>, <<"REPL server connection closed">>, FALSE, 1)

(***************************************************************************)
(* create_agent_factory (utils.py) over a tool list that holds one         *)
(* CodeExecutionTool, built on the one sandbox whose server the variables  *)
(* above describe.                                                         *)
(***************************************************************************)
TheSandbox == 1
ExecuteCodeName == "execute_code"
CodeExecutionTool(sandbox) == [name |-> ExecuteCodeName, sandbox |-> sandbox]
tools == <<CodeExecutionTool(TheSandbox)>>
\* tool_map = {tool.name: tool for tool in tools}, built once.
factory_tool_map == [n \in {tools[i].name : i \in 1..Len(tools)} |->
                        CHOOSE t \in {tools[i] : i \in 1..Len(tools)} : t.name = n]
\* ConversationWrapper(api_key=..., model=..., base_url=..., verbose=...,
\* system_prompt=...): the class of Client/openai_client.py has no parameter
\* of that name and raises TypeError; a class that has one, like the one the
\* tests put under that name in utils, gives a conversation.
ConversationWrapperOutcomes == {"return", "TypeError"}
IsLoop(l) == l.type = "loop"
Sessions == {s \in 1..Len(loops) : IsLoop(loops[s])}
\* The sandbox a loop's execute_code tool runs code in.
SandboxOf(s) == loops[s].tool_map[ExecuteCodeName].sandbox

\* factory(): a conversation of its own, and the tool_map of the closure.
FactoryCall ==
    /\ Len(loops) < MaxSessions
    /\ \E outcome \in ConversationWrapperOutcomes :
          loops' = Append(loops,
                          IF outcome = "return"
                          THEN [type |-> "loop", exc |-> None,
                                conversation |-> Len(loops) + 1,
                                tool_map |-> factory_tool_map]
                          ELSE [type |-> "raise", exc |-> outcome,
                                conversation |-> 0, tool_map |-> factory_tool_map])
    /\ UNCHANGED <<repl_env, repl_alive, repl_stdin, repl_stdout, repl_served, exec_call,
                   exec_log>>
    /\ UNCHANGED <<loopVars, outsideRepl>>

\* A session's execute_code tool is called: _execute calls sandbox.execute,
\* which sends the command line.
SandboxExecute ==
    /\ exec_call = NoExec
    /\ Len(exec_log) < MaxExec
    /\ \E s \in Sessions, code \in Codes :
          /\ SandboxOf(s) = TheSandbox
          /\ exec_call' = [caller |-> s, code |-> code]
          /\ repl_stdin' = Append(repl_stdin, dumps([code |-> code, timeout |-> 30]))
    /\ UNCHANGED <<repl_env, repl_alive, repl_stdout, repl_served, exec_log, loops>>
    /\ UNCHANGED <<loopVars, outsideRepl>>

\* The server reads its next line and handles it.
ReplServe ==
    /\ repl_alive
    /\ repl_stdin # << >>
    /\ LET done == main_body(Head(repl_stdin), repl_env) IN
          /\ repl_stdin' = Tail(repl_stdin)
          /\ repl_env' = done.env
          /\ repl_alive' = done.alive
          /\ repl_stdout' = repl_stdout \o done.written
          /\ repl_served' = Append(repl_served,
                                   [line |-> Head(repl_stdin), written |-> done.written])
    /\ UNCHANGED <<exec_call, exec_log, loops>>
    /\ UNCHANGED <<loopVars, outsideRepl>>

\* What execute makes of the socket once a line, or its end, is there: recv
\* takes what has arrived, and execute uses the first line of it.
execute_returns(stdout, alive) ==
    IF stdout # << >> THEN parse_response(Head(stdout)) ELSE ConnectionClosed
CanReceive == repl_stdout # << >> \/ ~repl_alive

\* sandbox.execute returns to the session's tool.
SandboxReturn ==
    /\ exec_call # NoExec
    /\ CanReceive
    /\ exec_log' = Append(exec_log, [caller |-> exec_call.caller, code |-> exec_call.code,
                                     result |-> execute_returns(repl_stdout, repl_alive)])
    /\ repl_stdout' = << >>
    /\ exec_call' = NoExec
    /\ UNCHANGED <<repl_env, repl_alive, repl_stdin, repl_served, loops>>
    /\ UNCHANGED <<loopVars, outsideRepl>>

InitSandbox ==
    /\ conversation_history = <<>>
    /\ max_iterations = MaxIter
    /\ pc = "idle"
    /\ iterations = 0
    /\ action = NoAction
    /\ result = NoResult
    /\ plan_log = <<>>
    /\ llm_calls = 0
    /\ llm_messages = <<>>
    /\ llm_response = NoResponse
    /\ next_id = 1
    /\ runs = 0
    /\ batch = NoBatch
    /\ InitStore
    /\ InitRemote
    /\ InitAgentTool
    /\ InitFile
    /\ InitRepl
    /\ InitBuild

NextSandbox == FactoryCall \/ SandboxExecute \/ ReplServe \/ SandboxReturn

\* Sessions built by one factory, each calling its execute_code tool, one
\* call at a time.
SpecSandbox == InitSandbox /\ [][NextSandbox]_vars

\* A step in which the server handles a line, and what exec makes of the
\* code in that line.
Serves == repl_served' # repl_served
NextExec == exec(loads(Head(repl_stdin)).value.code, repl_env)
\* Every piece of part is in text.
Contains(text, part) == \A i \in 1..Len(part) : \E j \in 1..Len(text) : text[j] = part[i]

\* C26 (checked under SpecSandbox): when the code of a request is still
\* running at the end of its time budget, the server writes one answer for it
\* with success false and exit code 124, not the exit code 1 of a failure, goes
\* on serving, and the answer holds everything the code had written to stdout
\* and to stderr before it was stopped.
C26_TimeoutKeepsOutput ==
    [][(Serves /\ NextExec.exc = "TimeoutError") =>
          /\ repl_alive'
          /\ Len(repl_stdout') = Len(repl_stdout) + 1
          /\ LET answer == Last(repl_stdout').value IN
                /\ ~answer.success
                /\ answer.exit_code = 124
                /\ answer.exit_code # 1
                /\ Contains(answer.stdout, NextExec.stdout)
                /\ Contains(answer.stderr, NextExec.stderr)
      ]_vars

\* The code in the line the server reads next.
NextCode == loads(Head(repl_stdin)).value.code

\* C27 (checked under SpecSandbox): the server never loses a binding. In the
\* step that handles a request, however the code ends, every name bound
\* before is bound afterwards, to the same value unless this code assigned it;
\* what the code assigned is bound afterwards; and a code that prints a name
\* bound by an earlier request is answered with that value. Since env changes
\* in no other step, the state one request leaves is the state the next one
\* runs in.
C27_StatePersists ==
    /\ [][Serves =>
             /\ \A name \in DOMAIN repl_env :
                   /\ name \in DOMAIN repl_env'
                   /\ \/ repl_env'[name] = repl_env[name]
                      \/ \E i \in 1..Len(NextCode) :
                            NextCode[i] = Assign(name, repl_env'[name])
             /\ NextCode[1].op = "assign" =>
                   /\ NextCode[1].arg \in DOMAIN repl_env'
                   /\ repl_env'[NextCode[1].arg] = NextCode[1].value
             /\ (NextCode = <<PrintVar("x")>> /\ "x" \in DOMAIN repl_env) =>
                   Last(repl_stdout').value =
                       ExecutionResult(<<repl_env["x"]>>, << >>, TRUE, 0)
         ]_vars
    /\ [][~Serves => repl_env' = repl_env]_vars

C27_Witness ==
    /\ Len(exec_log) = 3
    /\ exec_log[1].code = <<Assign("x", "2"), Spin>>
    /\ exec_log[1].result.exit_code = 124
    /\ exec_log[2].code = <<Write("stdout", "o"), RaiseStmt("ValueError")>>
    /\ exec_log[2].result.exit_code = 1
    /\ exec_log[3].code = <<PrintVar("x")>>
    /\ exec_log[3].result = ExecutionResult(<<"2">>, << >>, TRUE, 0)

\* C28 (checked under SpecSandbox, where execute calls do not overlap): the
\* server is serving; it has written one response line for every line it has
\* read; and between calls every request sent has been read and answered, the
\* k-th call having returned what the server wrote for the k-th request.
C28_OneAnswerPerRequest ==
    /\ repl_alive
    /\ \A k \in 1..Len(repl_served) : Len(repl_served[k].written) = 1
    /\ exec_call = NoExec =>
          /\ Len(repl_served) = Len(exec_log)
          /\ repl_stdin = << >>
          /\ repl_stdout = << >>
          /\ \A k \in 1..Len(exec_log) :
                /\ repl_served[k].line = dumps([code |-> exec_log[k].code, timeout |-> 30])
                /\ exec_log[k].result = parse_response(repl_served[k].written[1])

\* The calls of session s that returned before the k-th call did.
EarlierCalls(s, k) == {j \in 1..(k - 1) : exec_log[j].caller = s}
\* The k-th call printed x and found it bound.
SawBinding(k) == exec_log[k].code = <<PrintVar("x")>> /\ exec_log[k].result.success

CodeExecutionTool_execute(r) ==
    [kind |-> "return",
     value |-> [stdout |-> r.stdout, stderr |-> r.stderr, success |-> r.success]]

\* The codes the model asks for, and the arguments text of such a request.
LoopCodes ==
    {<<Assign("x", "2"), Spin>>,
     <<PrintVar("x")>>,
     <<Write("stdout", "o"), Write("stderr", "e"), Spin>>}
CodeCall(code) == <<ExecuteCodeName, dumps([code |-> code])>>
\* A request whose arguments name a parameter _execute does not have.
ScriptCall == <<ExecuteCodeName, dumps([script |-> <<PrintVar("x")>>])>>
CodeCalls == {CodeCall(c) : c \in LoopCodes} \cup {ScriptCall}
\* What the model boundary gives the loop: a failure, a final text, or one or
\* two requests for execute_code.
CodeLLMOutcomes(first_id) ==
    {Raise("APIError"), LLMMessage("done", NoneList)}
    \cup {LLMMessage(None, ListOf(MakeCalls(<<c>>, first_id))) : c \in CodeCalls}
    \cup {LLMMessage(None, ListOf(MakeCalls(<<c1, c2>>, first_id))) : c1, c2 \in CodeCalls}

\* self.function(**kwargs) with function = _execute(self, code): the keywords
\* bind when they are exactly the one parameter; otherwise the call raises
\* TypeError before _execute runs.
Binds(arguments) == DOMAIN arguments = {"code"}
\* What sendall does with the command line: it is sent, or the socket fails.
SendOutcomes == {"sent", "OSError"}

\* The loop's model turn.
CodeExecLLM ==
    /\ pc = "exec"
    /\ action.type = "MakeLLMRequestAction"
    /\ llm_calls < MaxLLMCalls
    /\ llm_calls' = llm_calls + 1
    /\ llm_messages' = to_messages(conversation_history)
    /\ \E outcome \in CodeLLMOutcomes(next_id) :
          LET r == MakeLLMRequest_run(conversation_history, outcome) IN
          /\ conversation_history' = r.history
          /\ llm_response' = outcome
          /\ next_id' = IF outcome.type = "raise" THEN next_id
                        ELSE next_id + Len(outcome.tool_calls.items)
          /\ IF r.raised # None
             THEN pc' = "idle" /\ result' = Raise(r.raised)
             ELSE pc' = "loop" /\ result' = result
    /\ UNCHANGED <<max_iterations, iterations, action, plan_log, runs, batch>>
    /\ UNCHANGED outsideLoop

\* The batch appends the Response of the request being served and goes to the
\* next request, or back to the loop after the last one. An exception leaving
\* execute would leave the batch and the run.
BatchAppends(response, served) ==
    IF "type" \in DOMAIN response
    THEN /\ pc' = "idle"
         /\ result' = response
         /\ call_i' = 0
         /\ UNCHANGED conversation_history
    ELSE /\ conversation_history' =
                add_tool_message(conversation_history, action.tool_calls[served].id,
                                 action.tool_calls[served].function.name,
                                 to_dict(response))
         /\ result' = result
         /\ IF served = Len(action.tool_calls)
            THEN pc' = "loop" /\ call_i' = 0
            ELSE pc' = pc /\ call_i' = served

\* ExecuteToolsAction.run reaches its next request: the arguments decode and
\* Tool.execute calls _execute with them. When they bind, sandbox.execute
\* sends the command line and waits; when they do not, or when the socket
\* fails, the exception is Tool.execute's to handle and the batch goes on.
CodeToolCall ==
    /\ pc = "exec"
    /\ action.type = "ExecuteToolsAction"
    /\ exec_call = NoExec
    /\ call_i < Len(action.tool_calls)
    /\ LET arguments == loads(action.tool_calls[call_i + 1].function.arguments).value IN
          IF ~Binds(arguments)
          THEN /\ BatchAppends(execute([kind |-> "raise", value |-> "TypeError"]),
                               call_i + 1)
               /\ UNCHANGED <<exec_call, repl_stdin, exec_log>>
          ELSE \E sent \in SendOutcomes :
                  IF sent = "sent"
                  THEN /\ call_i' = call_i + 1
                       /\ exec_call' = [caller |-> 1, code |-> arguments.code]
                       /\ repl_stdin' = Append(repl_stdin,
                                               dumps([code |-> arguments.code,
                                                      timeout |-> 30]))
                       /\ UNCHANGED <<conversation_history, pc, result, exec_log>>
                  ELSE /\ exec_log' = Append(exec_log,
                                             [caller |-> 1, code |-> arguments.code,
                                              result |-> Raise(sent)])
                       /\ BatchAppends(execute([kind |-> "raise", value |-> sent]),
                                       call_i + 1)
                       /\ UNCHANGED <<exec_call, repl_stdin>>
    /\ UNCHANGED <<max_iterations, iterations, action, plan_log, llm_calls,
                   llm_messages, llm_response, next_id, runs, batch>>
    /\ UNCHANGED <<repl_env, repl_alive, repl_stdout, repl_served, loops>>
    /\ UNCHANGED <<sub_history, sub_pc, sub_i, sub_iterations, sub_action, sub_result,
                   delegations>>
    /\ UNCHANGED <<storeVars, remoteVars, fileVars, buildVars>>

\* sandbox.execute returns to _execute, _execute to Tool.execute, and the
\* batch appends the Response under the request's id.
CodeToolReturn ==
    /\ pc = "exec"
    /\ exec_call # NoExec
    /\ CanReceive
    /\ LET r == execute_returns(repl_stdout, repl_alive) IN
          /\ exec_log' = Append(exec_log, [caller |-> exec_call.caller,
                                            code |-> exec_call.code, result |-> r])
          /\ BatchAppends(execute(CodeExecutionTool_execute(r)), call_i)
    /\ repl_stdout' = << >>
    /\ exec_call' = NoExec
    /\ UNCHANGED <<max_iterations, iterations, action, plan_log, llm_calls,
                   llm_messages, llm_response, next_id, runs, batch>>
    /\ UNCHANGED <<repl_env, repl_alive, repl_stdin, repl_served, loops>>
    /\ UNCHANGED <<sub_history, sub_pc, sub_i, sub_iterations, sub_action, sub_result,
                   delegations>>
    /\ UNCHANGED <<storeVars, remoteVars, fileVars, buildVars>>

NextCodeAgent ==
    \/ Run \/ LoopPlan \/ LoopExit \/ ExecTerminal \/ CodeExecLLM
    \/ CodeToolCall \/ ReplServe \/ CodeToolReturn

\* A loop that executes code through a CodeExecutionTool.
SpecCodeAgent == InitSandbox /\ [][NextCodeAgent]_vars

\* A step in which sandbox.execute returns an answer of the server that
\* reports a timeout.
TimeoutReturns ==
    /\ Len(exec_log') = Len(exec_log) + 1
    /\ repl_stdout # << >>
    /\ Head(repl_stdout).value.exit_code = 124
\* What _execute makes of a timeout that left this much on stdout.
TimeoutData(stdout) ==
    [stdout |-> stdout, stderr |-> <<"Code execution timed out">>, success |-> FALSE]

\* C30 (checked under SpecCodeAgent): when the server answers a request with
\* a timeout, sandbox.execute returns a result with success false and exit
\* code 124; the tool's Response for it is appended to the history under the
\* request's id, and the run is not left: it stands at the next request of the
\* batch or at the loop head. The only exception that ever leaves a run is the
\* model boundary's, and the planner's step after a tool result is a model
\* turn.
C30_TimeoutIsToolResult ==
    /\ [][TimeoutReturns =>
             /\ ~Last(exec_log').result.success
             /\ Last(exec_log').result.exit_code = 124
             /\ conversation_history' =
                    Append(conversation_history,
                           ToolMessageAction(ServedCall.id, ExecuteCodeName,
                               [success |-> TRUE,
                                data |-> TimeoutData(Head(repl_stdout).value.stdout)]))
             /\ result' = result
             /\ pc' = IF call_i = Len(action.tool_calls) THEN "loop" ELSE "exec"
         ]_vars
    /\ [](result.type = "raise" => result.exc = "APIError")
    /\ [][(/\ pc = "loop"
           /\ pc' # "loop"
           /\ Last(conversation_history).type = "tool"
           /\ LoopGuard(iterations, max_iterations))
          => (pc' = "exec" /\ action' = MakeLLMRequestAction)
         ]_vars

C30_Witness ==
    /\ result = Return("done")
    /\ Len(exec_log) = 1
    /\ exec_log[1].result = ExecutionResult(<<"o">>, <<"Code execution timed out">>,
                                            FALSE, 124)
    /\ Len(conversation_history) = 4
    /\ conversation_history[3].type = "tool"
    /\ conversation_history[3] =
           ToolMessageAction(1, ExecuteCodeName,
                             [success |-> TRUE, data |-> TimeoutData(<<"o">>)])
    /\ conversation_history[4] = AssistantMessageAction("done", NoneList)

(***************************************************************************)
(* Construction: ConversationWrapper.__init__ (Client/openai_client.py),   *)
(* called directly or by create_agent (utils.py). The keyword arguments of *)
(* a call are a function from parameter names to values.                   *)
(***************************************************************************)
\* The parameters of ConversationWrapper.__init__ after self.
ConversationWrapperParams ==
    {"api_key", "model", "base_url", "tools", "planner", "agentic_loop", "verbose"}

\* ConversationWrapper(**kwargs): Python binds the keywords to the parameters
\* and raises TypeError for a keyword that names none of them; the body
\* leaves the history that BaseConversationWrapper.__init__ made, [].
ConversationWrapper(kwargs) ==
    IF DOMAIN kwargs \subseteq ConversationWrapperParams
    THEN [type |-> "return", conversation_history |-> << >>]
    ELSE Raise("TypeError")

\* The calls made directly: without a system prompt, and with one.
DirectKwargs ==
    {[api_key |-> "test_key", model |-> "gpt-4"],
     [api_key |-> "test_key", model |-> "gpt-4", system_prompt |-> "sys"]}
SystemPrompts == {None, "sys"}
\* The call create_agent makes.
create_agent(system_prompt) ==
    [api_key |-> "test_key", model |-> "gpt-4", base_url |-> None, verbose |-> "True",
     system_prompt |-> system_prompt]

\* What a call leaves: the object with its history, or the exception that
\* leaves the constructor and the caller.
Built(kwargs, history, last) ==
    LET r == ConversationWrapper(kwargs) IN
    IF r.type = "raise"
    THEN [pc |-> "failed", result |-> r, conversation_history |-> history]
    ELSE [pc |-> "idle", result |-> last, conversation_history |-> r.conversation_history]

\* ConversationWrapper(...), called directly.
NewConversationWrapper ==
    /\ pc = "unbuilt"
    /\ \E kwargs \in DirectKwargs :
          /\ init_kwargs' = kwargs
          /\ pc' = Built(kwargs, conversation_history, result).pc
          /\ result' = Built(kwargs, conversation_history, result).result
          /\ conversation_history' =
                 Built(kwargs, conversation_history, result).conversation_history
    /\ UNCHANGED <<max_iterations, iterations, action, plan_log, llm_calls, llm_messages,
                   llm_response, next_id, runs, batch>>
    /\ UNCHANGED <<storeVars, remoteVars, agentVars, fileVars, replVars>>

\* create_agent(...), up to its ConversationWrapper(...) call.
CreateAgent ==
    /\ pc = "unbuilt"
    /\ \E system_prompt \in SystemPrompts :
          LET kwargs == create_agent(system_prompt) IN
          /\ init_kwargs' = kwargs
          /\ pc' = Built(kwargs, conversation_history, result).pc
          /\ result' = Built(kwargs, conversation_history, result).result
          /\ conversation_history' =
                 Built(kwargs, conversation_history, result).conversation_history
    /\ UNCHANGED <<max_iterations, iterations, action, plan_log, llm_calls, llm_messages,
                   llm_response, next_id, runs, batch>>
    /\ UNCHANGED <<storeVars, remoteVars, agentVars, fileVars, replVars>>

InitUnbuilt ==
    /\ conversation_history = <<>>
    /\ max_iterations = 0
    /\ pc = "unbuilt"
    /\ iterations = 0
    /\ action = NoAction
    /\ result = NoResult
    /\ plan_log = <<>>
    /\ llm_calls = 0
    /\ llm_messages = <<>>
    /\ llm_response = NoResponse
    /\ next_id = 1
    /\ runs = 0
    /\ batch = NoBatch
    /\ InitStore
    /\ InitRemote
    /\ InitAgentTool
    /\ InitFile
    /\ InitRepl
    /\ InitBuild

NextBuild ==
    \/ NewConversationWrapper \/ CreateAgent
    \/ AddSystemMessage \/ AddUserMessage \/ AddAssistantMessage \/ AddToolMessage
    \/ PlannerStep

\* A conversation is constructed and then used.
SpecBuild == InitUnbuilt /\ [][NextBuild]_vars

\* The construction step, made with a system prompt.
BuiltWithPrompt ==
    /\ pc = "unbuilt"
    /\ pc' # "unbuilt"
    /\ "system_prompt" \in DOMAIN init_kwargs'
    /\ init_kwargs'["system_prompt"] # None

\* C31 (checked under SpecBuild): a construction that is given a system
\* prompt succeeds, and the history of the new object is one system entry
\* holding the prompt.
C31_SystemPromptSeeded ==
    [][BuiltWithPrompt =>
          /\ pc' = "idle"
          /\ conversation_history' = <<SystemMessageAction(init_kwargs'["system_prompt"])>>
      ]_vars

\* Request i is the first of the latest batch whose arguments are not JSON,
\* and the batch got as far as it.
FirstInvalidReached(i) ==
    /\ BatchArgs(i) = "invalid"
    /\ \A j \in 1..(i - 1) : BatchArgs(j) # "invalid"
    /\ Reached(i)

\* C32 (checked under SpecTools): a batch that reaches a request whose
\* arguments are not valid JSON raises JSONDecodeError, which leaves the run;
\* every request before it has its entry, and the history ends there: there
\* is no entry for that request or for a later one.
C32_InvalidJsonRaises ==
    BatchRan =>
        \A i \in 1..BatchSize :
            FirstInvalidReached(i) =>
                /\ batch.raised = "JSONDecodeError"
                /\ result = Raise("JSONDecodeError")
                /\ pc = "idle"
                /\ BatchAppended = i - 1
                /\ \A j \in 1..(i - 1) : Answers(j)
                /\ Len(conversation_history) = batch.start + i - 1

C32_Witness ==
    /\ BatchRan
    /\ BatchSize = 2
    /\ BatchName(1) = "add" /\ BatchArgs(1) = "object"
    /\ BatchName(2) = "nope" /\ BatchArgs(2) = "invalid"
    /\ batch.raised = "JSONDecodeError"
    /\ Len(conversation_history) = 3
    /\ conversation_history[3] =
           ToolMessageAction(1, "add", [success |-> TRUE, data |-> "8"])

\* A step in which the batch appends a tool entry, and that entry's payload.
ToolAppends ==
    /\ Len(conversation_history') = Len(conversation_history) + 1
    /\ Last(conversation_history').type = "tool"
Payload == Last(conversation_history').content
\* A step in which the call of sandbox.execute ends: by returning a result,
\* or by raising.
ChannelReturns ==
    Len(exec_log') = Len(exec_log) + 1 /\ "success" \in DOMAIN Last(exec_log').result
ChannelRaises ==
    Len(exec_log') = Len(exec_log) + 1 /\ "exc" \in DOMAIN Last(exec_log').result
\* The arguments of the request the batch is serving in this step.
ServedArguments ==
    loads(action.tool_calls[IF exec_call # NoExec THEN call_i ELSE call_i + 1]
              .function.arguments).value

\* The half of C33 that the amendment keeps: what the tool makes of a channel
\* call that returned, and of one that raised.
ChannelOutcomeWrapped ==
    /\ [][ChannelReturns =>
             /\ ToolAppends
             /\ Payload = [success |-> TRUE,
                           data |-> [stdout |-> Last(exec_log').result.stdout,
                                     stderr |-> Last(exec_log').result.stderr,
                                     success |-> Last(exec_log').result.success]]
         ]_vars
    /\ [][ChannelRaises =>
             /\ ToolAppends
             /\ Payload = [success |-> FALSE, data |-> None,
                           error |-> Last(exec_log').result.exc]
         ]_vars

\* C33 as stated: the Response of execute_code has success false only when
\* the channel call raised.
C33_AsStated ==
    /\ ChannelOutcomeWrapped
    /\ [][(ToolAppends /\ ~Payload.success) => ChannelRaises]_vars

\* C33 (amended): whenever sandbox.execute returns a result, for code that
\* succeeded, failed or timed out, the Response has success true and its data
\* is the result's stdout, stderr and success flag; when sandbox.execute
\* raises, the Response has success false and the exception's message; and the
\* Response has success false only then, or when the arguments of the request
\* do not bind to _execute's one parameter, in which case the channel is not
\* called at all.
C33_ToolLevelOutcome ==
    /\ ChannelOutcomeWrapped
    /\ [][(ToolAppends /\ ~Payload.success) =>
             \/ ChannelRaises
             \/ ~Binds(ServedArguments) /\ UNCHANGED <<exec_log, exec_call, repl_stdin>>
         ]_vars

C33_Witness ==
    /\ Len(exec_log) = 2
    /\ exec_log[1].result = Raise("OSError")
    /\ "exit_code" \in DOMAIN exec_log[2].result
    /\ exec_log[2].result.exit_code = 1
    /\ Len(conversation_history) = 4
    /\ conversation_history[3].type = "tool"
    /\ conversation_history[3].content =
           [success |-> FALSE, data |-> None, error |-> "OSError"]
    /\ conversation_history[4].type = "tool"
    /\ conversation_history[4].content =
           [success |-> TRUE,
            data |-> [stdout |-> << >>, stderr |-> <<"Traceback", "NameError">>,
                      success |-> FALSE]]

\* The planner's outputs of the current run that follow one another.
Consecutive == {i \in 1..(Len(plan_log) - 1) : TRUE}

\* C34 (checked under Spec): in every run the planner's first output is a
\* model turn; a model turn is never followed by a model turn and a tool batch
\* never by a tool batch; a tool batch and a completion come only directly
\* after a model turn.
C34_Alternation ==
    /\ plan_log # << >> => plan_log[1] = "MakeLLMRequestAction"
    /\ \A i \in Consecutive :
          /\ plan_log[i] = "MakeLLMRequestAction" => plan_log[i + 1] # "MakeLLMRequestAction"
          /\ plan_log[i] = "ExecuteToolsAction" => plan_log[i + 1] # "ExecuteToolsAction"
          /\ plan_log[i + 1] \in {"ExecuteToolsAction", "CompleteAction"}
                => plan_log[i] = "MakeLLMRequestAction"

C34_Witness ==
    /\ plan_log = <<"MakeLLMRequestAction", "ExecuteToolsAction",
                    "MakeLLMRequestAction", "CompleteAction">>
    /\ pc = "idle"
    /\ result.type = "return"

\* The tool batches the planner has asked for in the current run.
ToolRounds ==
    Cardinality({i \in 1..Len(plan_log) : plan_log[i] = "ExecuteToolsAction"})
\* The run has returned (it has not raised).
RunReturned == pc = "idle" /\ runs > 0 /\ result.type = "return"

\* C35 (checked under Spec): a run returns through a CompleteAction only from
\* the second planner invocation onwards, and after t tool batches at
\* invocation 2t + 2 exactly; with max_iterations = 1 a run that returns
\* returns the fixed string of the exhausted budget, whatever the model
\* answered on its only call; with max_iterations = 0 the run appends the user
\* entry, does not invoke the planner or the model, and returns that string.
C35_AnswerNeedsTwoInvocations ==
    /\ (RunReturned /\ EndedByTerminal)
         => /\ Len(plan_log) >= 2
            /\ Len(plan_log) = 2 * ToolRounds + 2
            /\ iterations = Len(plan_log)
    /\ (RunReturned /\ max_iterations = 1)
         => /\ result = Return(Sentinel)
            /\ plan_log = <<"MakeLLMRequestAction">>
    /\ (RunReturned /\ max_iterations = 0)
         => /\ result = Return(Sentinel)
            /\ plan_log = << >>
            /\ llm_calls = 0
            /\ Len(conversation_history) = runs
            /\ \A i \in 1..Len(conversation_history) :
                  conversation_history[i].type = "user"

\* The model answered in plain text on the only call a budget of 1 allows, and
\* the run returned the fixed string.
C35_Witness ==
    /\ RunReturned
    /\ max_iterations = 1
    /\ llm_response = LLMMessage("done", NoneList)
    /\ Last(conversation_history).type = "assistant"
    /\ result = Return(Sentinel)

\* The step in which agent.run, called by session_run in thread t, raises.
RunFails(t) ==
    /\ threads[t].op = "run"
    /\ threads[t].pc \in {"loop", "exec"}
    /\ threads'[t].pc = "done"
    /\ threads'[t].status = 500
\* The entries the step appends to the history of loop a, if it only appends.
KeepsAll(a) ==
    /\ Len(agents'[a].conversation_history) >= Len(History(a))
    /\ SubSeq(agents'[a].conversation_history, 1, Len(History(a))) = History(a)
AppendedTypes(a) ==
    {agents'[a].conversation_history[i].type :
        i \in (Len(History(a)) + 1)..Len(agents'[a].conversation_history)}

\* C36 (checked under SpecServer): the step in which a session's run raises
\* removes nothing from the loop's history, appends no assistant entry (a
\* failed model call appends nothing at all, a failed tool batch only the tool
\* entries of the requests served before the failure) and leaves the session
\* map as it was; an id leaves the session map only by a delete answered 200,
\* and a run, reset or delete that looks up a registered id is not answered 404.
C36_ErrorKeepsEverything ==
    [][/\ \A t \in Threads :
            RunFails(t) =>
               /\ sessions' = sessions
               /\ KeepsAll(threads[t].agent)
               /\ AppendedTypes(threads[t].agent) \subseteq {"tool"}
               /\ threads[t].action.type = "MakeLLMRequestAction"
                    => agents' = agents
       /\ DOMAIN sessions' # DOMAIN sessions
            => \/ DOMAIN sessions \subseteq DOMAIN sessions'
               \/ \E t \in Threads : /\ threads[t].pc = "delete"
                                     /\ threads'[t].status = 200
                                     /\ DOMAIN sessions' =
                                           DOMAIN sessions \ {threads[t].session_id}
       /\ \A t \in Threads :
            (/\ StepOf(t)
             /\ threads[t].pc \in {"get", "delete"}
             /\ Registered(threads[t].session_id))
            => threads'[t].status # 404
      ]_vars

\* A run on session a1 ended with the failure of its tool batch (500): the
\* user entry, the assistant entry and the tool entry of the request served
\* before the failure are the loop's history; the reset of a1 that followed
\* was answered 200, not 404, and a1 is still registered.
C36_Witness ==
    /\ threads["t1"].op = "run"
    /\ threads["t1"].session_id = "a1"
    /\ threads["t1"].pc = "done"
    /\ threads["t1"].status = 500
    /\ threads["t1"].response = "JSONDecodeError"
    /\ threads["t2"].op = "reset"
    /\ threads["t2"].session_id = "a1"
    /\ threads["t2"].status = 200
    /\ threads["t2"].cleared = 3
    /\ Registered("a1")
    /\ agents[1].conversation_history = << >>

\* Thread t is inside agent.run: its lookup of the session has succeeded.
InRun(t) == threads[t].op = "run" /\ threads[t].pc \in {"run", "loop", "exec"}
\* The next statement of agent.run in thread t.
RunStep(t) ==
    \/ SessionRun(t)
    \/ SessionLoopPlan(t)
    \/ SessionLoopExit(t)
    \/ SessionExecLLM(t)
    \/ SessionExecTools(t)
    \/ SessionExecTerminal(t)
\* The ids returned to a client and deleted since.
Deleted == DOMAIN returned \ DOMAIN sessions

\* C37 (checked under SpecServer): a delete never waits for a run (a thread
\* inside agent.run does not hold the store's lock, and the delete can take its
\* step whenever the lock is free) and changes neither another thread nor any
\* loop; a thread inside agent.run can always take its next step, whether or
\* not its session is still registered, and the run is answered 200 or 500,
\* never 404; a deleted id stays deleted and every lookup of it is answered
\* 404; of two deletes of the same id that both arrived before it was deleted,
\* one is answered 200 and the other 404.
C37_DeleteDuringRun ==
    /\ [](\A t \in Threads :
            /\ InRun(t) => (lock # t /\ ENABLED RunStep(t))
            /\ (threads[t].pc = "delete" /\ lock = None) => ENABLED StoreDelete(t))
    /\ [](\A t, u \in Threads :
            (/\ t # u
             /\ threads[t].op = "delete" /\ threads[u].op = "delete"
             /\ threads[t].pc = "done" /\ threads[u].pc = "done"
             /\ threads[t].session_id = threads[u].session_id
             /\ threads[t].session_id \in DOMAIN returned
             /\ threads[t].session_id \notin threads[t].deleted_before
             /\ threads[u].session_id \notin threads[u].deleted_before)
            => {threads[t].status, threads[u].status} = {200, 404})
    /\ [][/\ \A t \in Threads :
               /\ (StepOf(t) /\ threads[t].pc = "delete")
                    => /\ agents' = agents
                       /\ \A u \in Threads \ {t} : threads'[u] = threads[u]
               /\ (StepOf(t) /\ InRun(t))
                    => /\ threads'[t].pc \in {"loop", "exec", "done"}
                       /\ threads'[t].pc = "done" => threads'[t].status \in {200, 500}
               /\ (/\ StepOf(t)
                   /\ threads[t].pc \in {"get", "delete"}
                   /\ threads[t].session_id \in Deleted)
                    => threads'[t].status = 404
          /\ Deleted \subseteq (DOMAIN returned' \ DOMAIN sessions')
         ]_vars

\* Session a1 was deleted while the run of thread t1 was inside agent.run: the
\* run goes on on the removed loop and is about to return the model's answer,
\* and the request on a1 that arrived after the delete was answered 404.
C37_Witness ==
    /\ InRun("t1")
    /\ threads["t1"].session_id = "a1"
    /\ threads["t1"].pc = "exec"
    /\ threads["t1"].action.type = "CompleteAction"
    /\ ~Registered("a1")
    /\ threads["t2"].op = "reset"
    /\ threads["t2"].session_id = "a1"
    /\ threads["t2"].deleted_before = {"a1"}
    /\ threads["t2"].status = 404

(***************************************************************************)
(* The REPL server on its own: command lines arrive on its stdin and it    *)
(* answers them one by one. Every command carries a positive timeout.      *)
(***************************************************************************)
ReplCodes ==
    {<<Assign("x", "1")>>,
     <<PrintVar("x")>>,
     <<Write("stdout", "o"), Spin>>,
     <<Write("stdout", "o"), RaiseStmt("ValueError")>>,
     <<Write("stdout", "o"), RaiseStmt("TimeoutError")>>,
     <<SpinCaught, Write("stdout", "o")>>}

\* A command line is written to the server's stdin.
ReplRequest ==
    /\ Len(repl_stdin) + Len(repl_served) < MaxExec
    /\ \E code \in ReplCodes :
          repl_stdin' = Append(repl_stdin, dumps([code |-> code, timeout |-> 30]))
    /\ UNCHANGED <<repl_env, repl_alive, repl_stdout, repl_served, exec_call, exec_log,
                   loops>>
    /\ UNCHANGED <<loopVars, outsideRepl>>

NextRepl == ReplRequest \/ ReplServe
SpecRepl == InitSandbox /\ [][NextRepl]_vars

\* The alarm goes off while the code runs: the code reaches a loop that does
\* not end by itself.
BudgetExpires(code, env) ==
    \E i \in 1..Len(code) :
       /\ code[i].op \in {"spin", "spin_caught"}
       /\ exec(SubSeq(code, 1, i - 1), env).exc = None

\* C38 (checked under SpecRepl): the answer to a command has exit code 124
\* exactly when the alarm went off while its code ran.
C38_TimeoutIffExpired ==
    [][repl_served' # repl_served =>
          LET code == Head(repl_stdin).value.code
              written == Last(repl_served').written
          IN /\ written # << >>
             /\ written[1].value.exit_code = 124 <=> BudgetExpires(code, repl_env)
      ]_vars

\* close has sent its DELETE: the tool has been closed.
Closed == Deletes # {}
\* The requests the step sends.
NewRequests == {remote_log'[k] : k \in (Len(remote_log) + 1)..Len(remote_log')}
\* What Tool.execute makes of the way _delegate ended.
RemoteToolResponse(ended) ==
    execute([kind |-> ended.type, value |-> ended.value])

\* C39 (checked under SpecRemote): once close has ended the tool holds no
\* session id, whatever the DELETE got; a _delegate called after that sends
\* no POST /sessions and no request that names the id the tool held, changes
\* nothing on the server, leaves the tool without an id, and raises, which
\* Tool.execute turns into a Response with success false.
C39_ClosedToolFails ==
    /\ [](Closed => remote_session_id = None)
    /\ [][(Closed /\ remote_result'.call = "_delegate" /\ remote_calls' # remote_calls) =>
             /\ remote_result'.type = "raise"
             /\ RemoteToolResponse(remote_result').success = FALSE
             /\ RemoteToolResponse(remote_result').error \in {"HTTPError", "ConnectionError"}
             /\ remote_server' = remote_server
             /\ remote_session_id' = None
             /\ NewRequests # {}
             /\ \A r \in NewRequests :
                   /\ r.method = "POST"
                   /\ r.path \in {"reset", "run"}
                   /\ r.session_id = None
                   /\ r.status \in {NoResponseStatus, 404}
         ]_vars

\* The DELETE of close got no response, so the session is still on the
\* server; the _delegate that followed asked for the session named None, got
\* 404 twice and raised.
C39_Witness ==
    /\ remote_state = "ready"
    /\ remote_calls = 2
    /\ remote_log = <<Sent("GET", "info", None, 200),
                      Sent("POST", "sessions", None, 201),
                      Sent("DELETE", "session", "a1", NoResponseStatus),
                      Sent("POST", "reset", None, 404),
                      Sent("POST", "run", None, 404)>>
    /\ remote_result = Ended("_delegate", "raise", "HTTPError")
    /\ remote_session_id = None
    /\ remote_server = {"a1"}

====
